---- MODULE Spec2Model ----
(***************************************************************************)
(* Ledger Store of the financial agent (app/store.py,                       *)
(* PersistentSQLiteStore): the transactions table, the unit of work         *)
(* (get_session) every operation runs in, the mutating operations, the      *)
(* period-based queries, the keyword table and the inference of a category  *)
(* from a description; the tools that call the store                        *)
(* (app/tools/financial_tools.py) and the tools that keep preferences and   *)
(* budgets in the memory store (app/tools/memory.py).                       *)
(*                                                                          *)
(* Amounts are integers (the Float column holds whole amounts here), a      *)
(* date is a record [y, m, d] ordered as SQLite orders the ISO strings it   *)
(* stores, and Python's None for a string or date argument is the value     *)
(* NoneStr / NoDate. A text that the code looks into (a description, a      *)
(* keyword, a date string, a name that is made a key) is the sequence of    *)
(* its characters.                                                          *)
(***************************************************************************)
EXTENDS Integers, Sequences, FiniteSets, TLC

VARIABLES
    rows,      \* the committed content of table 'transactions': a set of records
    today,     \* what date.today() returns
    last,      \* the last call: its arguments, what it returned or raised
    now,       \* what datetime.now() returns, in ticks of the clock
    mappings,  \* the committed content of table 'category_mappings'
    memory,    \* the documents of the memory store, by <<namespace, key>>
    sessions   \* the units of work in flight, by caller

vars == <<rows, today, last, now, mappings, memory, sessions>>

----------------------------------------------------------------------------
(* Bounds of the model *)

MaxRows == 2          \* rows the table holds at most

----------------------------------------------------------------------------
(* Dates: datetime.date, compared field by field *)

Date(y, m, d) == [y |-> y, m |-> m, d |-> d]

NoDate == Date(0, 0, 0)          \* transaction_date = None

IsLeap(y) == (y % 4 = 0 /\ y % 100 # 0) \/ y % 400 = 0

DaysInMonth(y, m) ==
    IF m = 2 THEN (IF IsLeap(y) THEN 29 ELSE 28)
    ELSE IF m \in {4, 6, 9, 11} THEN 30 ELSE 31

PrevDay(dt) ==
    IF dt.d > 1 THEN Date(dt.y, dt.m, dt.d - 1)
    ELSE IF dt.m > 1 THEN Date(dt.y, dt.m - 1, DaysInMonth(dt.y, dt.m - 1))
    ELSE Date(dt.y - 1, 12, 31)

RECURSIVE MinusDays(_, _)
\* today - timedelta(days=n)
MinusDays(dt, n) == IF n = 0 THEN dt ELSE MinusDays(PrevDay(dt), n - 1)

\* A comparison that leaves the start date itself out
DateAfter(a, b) ==
    \/ a.y > b.y
    \/ a.y = b.y /\ a.m > b.m
    \/ a.y = b.y /\ a.m = b.m /\ a.d > b.d

\* Transaction.date >= start_date
DateGE(a, b) ==
    \/ a.y > b.y
    \/ a.y = b.y /\ a.m > b.m
    \/ a.y = b.y /\ a.m = b.m /\ a.d >= b.d

----------------------------------------------------------------------------
(* Input domains *)

NoneStr == "None"                \* None passed for an optional string

Users == {"u1", "u2"}

Types == {"income", "expense"}

Categories == {"Alimentação", "Outros"}

AmountInputs == {-45, 45}        \* add_transaction takes either sign

FirstDay == Date(2024, 3, 5)     \* date.today() in the runs of the model

FirstTime == 0                   \* datetime.now() when the ledger is filled

\* transaction_date of add_transaction: None (today) in the ledger's runs
DateInputs == {NoDate}

Descriptions == {<<"None">>}     \* description: Optional[str] = None

ThreadIds == {NoneStr}           \* thread_id: Optional[str]

IdInputs == 1 .. (MaxRows + 1)   \* transaction_id arguments

----------------------------------------------------------------------------
(* The table *)

Ids(db) == {r.id : r \in db}

RECURSIVE MaxOf(_)
MaxOf(S) == IF S = {} THEN 0
            ELSE LET x == CHOOSE x \in S : TRUE
                     m == MaxOf(S \ {x})
                 IN IF x > m THEN x ELSE m

\* id = Column(Integer, primary_key=True, autoincrement=True): on SQLite an
\* INTEGER PRIMARY KEY without the AUTOINCREMENT keyword, so a new row gets
\* one more than the largest id in the table.
NewRowId(db) == MaxOf(Ids(db)) + 1

Transaction(id, user_id, amount, type, category, description, dt, thread_id, created_at, updated_at) ==
    [id |-> id, user_id |-> user_id, amount |-> amount, type |-> type,
     category |-> category, description |-> description, date |-> dt,
     thread_id |-> thread_id, created_at |-> created_at,
     updated_at |-> updated_at]

\* Transaction.to_dict; date.isoformat() gives the fields year-month-day
to_dict(r) ==
    [id |-> r.id, user_id |-> r.user_id, amount |-> r.amount, type |-> r.type,
     category |-> r.category, description |-> r.description,
     date |-> <<r.date.y, r.date.m, r.date.d>>, thread_id |-> r.thread_id,
     created_at |-> r.created_at]

----------------------------------------------------------------------------
(* get_session: one unit of work *)

\* A session: the table on file (db) and the table as the session's own
\* transaction sees it (pending)
Session(db, pending) == [db |-> db, pending |-> pending]

\* session.commit(): the session's changes become the table
session_commit(s) == Session(s.pending, s.pending)

\* A rollback that keeps the session's changes
session_rollback_keeps(s) == Session(s.pending, s.pending)

\* session.rollback(): the session's changes are dropped
session_rollback(s) == Session(s.db, s.db)

\* session.close(): the connection is released; what its transaction had
\* neither committed nor rolled back is dropped with it
session_close(s) == s.db

NoExc == "none"

\* body = [pending, ret, exc]: the table as the session sees it when the body
\* ends, what the body returns, and the exception the body raised (NoExc when
\* it completed). commitExc is the exception session.commit() raises.
\*     try: yield session; session.commit()
\*     except SQLAlchemyError as e: session.rollback(); raise e
\*     finally: session.close()
get_session(db, body, commitExc) ==
    LET session == Session(db, body.pending)
    IN IF body.exc = NoExc
       THEN IF commitExc = NoExc
            THEN [db |-> session_close(session_commit(session)),
                  raised |-> NoExc]
            ELSE [db |-> session_close(session_rollback(session)),
                  raised |-> commitExc]
       ELSE IF body.exc = "SQLAlchemyError"
            THEN [db |-> session_close(session_rollback(session)),
                  raised |-> body.exc]
            ELSE [db |-> session_close(session), raised |-> body.exc]

\* A failure the environment may inject into a unit of work: a statement of
\* the body fails (SQLAlchemyError), the body fails with another exception,
\* or the commit fails (SQLAlchemyError).
Faults == {"none", "body", "error", "commit"}

BodyExc(fault) ==
    IF fault = "body" THEN "SQLAlchemyError"
    ELSE IF fault = "error" THEN "Exception"
    ELSE NoExc

CommitExc(fault) == IF fault = "commit" THEN "SQLAlchemyError" ELSE NoExc

----------------------------------------------------------------------------
(* add_transaction *)

Abs(x) == IF x < 0 THEN -x ELSE x

\* td is date.today() and ts datetime.now(), the column defaults
add_transaction_body(db, td, ts, user_id, amount, type, category, description, transaction_date, thread_id, fault) ==
    LET transaction ==
            Transaction(NewRowId(db), user_id, Abs(amount), type, category,
                        description,
                        IF transaction_date = NoDate THEN td
                        ELSE transaction_date,
                        thread_id, ts, ts)
    IN [pending |-> db \cup {transaction},
        ret |-> transaction.id,
        \* type and category are nullable=False: session.flush() raises an
        \* IntegrityError for a None
        exc |-> IF type = NoneStr \/ category = NoneStr
                THEN "SQLAlchemyError" ELSE BodyExc(fault)]

AddTransaction(user_id, amount, type, category, description, transaction_date, thread_id, fault) ==
    /\ Cardinality(rows) < MaxRows
    /\ NewRowId(rows) \in IdInputs
    /\ LET body == add_transaction_body(rows, today, now, user_id, amount, type,
                                        category, description,
                                        transaction_date, thread_id, fault)
           out == get_session(rows, body, CommitExc(fault))
       IN /\ rows' = out.db
          /\ last' = [op |-> "add_transaction", user |-> user_id,
                      fault |-> fault,
                      raised |-> out.raised, ret |-> body.ret]
    /\ UNCHANGED <<today, now, mappings, memory, sessions>>

----------------------------------------------------------------------------
(* delete_transaction *)

\* A lookup that forgets the id, and one that forgets the owner
Matching_any_id(db, user_id, transaction_id) ==
    {r \in db : r.user_id = user_id}

Matching_any_user(db, user_id, transaction_id) ==
    {r \in db : r.id = transaction_id}

\* session.query(Transaction).filter(id == transaction_id,
\*                                   user_id == user_id).first()
Matching(db, user_id, transaction_id) ==
    {r \in db : r.id = transaction_id /\ r.user_id = user_id}

delete_transaction_body(db, user_id, transaction_id, fault) ==
    LET found == Matching(db, user_id, transaction_id)
    IN IF found # {}
       THEN [pending |-> db \ found, ret |-> TRUE, exc |-> BodyExc(fault)]
       ELSE [pending |-> db, ret |-> FALSE, exc |-> BodyExc(fault)]

DeleteTransaction(user_id, transaction_id, fault) ==
    /\ LET body == delete_transaction_body(rows, user_id, transaction_id, fault)
           out == get_session(rows, body, CommitExc(fault))
       IN /\ rows' = out.db
          /\ last' = [op |-> "delete_transaction", user |-> user_id,
                      id |-> transaction_id, fault |-> fault,
                      raised |-> out.raised, ret |-> body.ret]
    /\ UNCHANGED <<today, now, mappings, memory, sessions>>

----------------------------------------------------------------------------
(* update_transaction *)

\* One keyword argument: None, or a value
KwNone == [null |-> TRUE, val |-> 0]
KwVal(v) == [null |-> FALSE, val |-> v]

UpdateAmounts == {-45, 45}

\* **kwargs: the empty call, and calls with one keyword: a column with a
\* value, a column with None, a name that is no column
KwargsSet ==
    {<<>>}
    \cup {("amount" :> KwVal(a)) : a \in UpdateAmounts}
    \cup {("type" :> KwVal("income")), ("category" :> KwVal("Alimentação")),
          ("user_id" :> KwVal("u2"))}
    \cup {("id" :> KwVal(i)) : i \in IdInputs}
    \cup {("amount" :> KwNone), ("bogus" :> KwVal(1))}

\* hasattr(transaction, key): the mapped columns
hasattr(transaction, key) == key \in DOMAIN transaction

\* An assignment that writes a None as well
setattrs_none_too(transaction, kwargs) ==
    [f \in DOMAIN transaction |->
        IF f \in DOMAIN kwargs /\ hasattr(transaction, f)
        THEN kwargs[f].val
        ELSE transaction[f]]

\* for key, value in kwargs.items():
\*     if hasattr(transaction, key) and value is not None: setattr(...)
setattrs(transaction, kwargs) ==
    [f \in DOMAIN transaction |->
        IF f \in DOMAIN kwargs /\ hasattr(transaction, f) /\ ~kwargs[f].null
        THEN kwargs[f].val
        ELSE transaction[f]]

\* updated_at = Column(..., onupdate=datetime.now): the flush writes the
\* columns whose value changed; when there are any and updated_at is not one
\* of them, it writes updated_at = ts as well
onupdate(transaction, changed, ts) ==
    IF changed = transaction \/ changed.updated_at # transaction.updated_at
    THEN changed
    ELSE [changed EXCEPT !.updated_at = ts]

update_transaction_body(db, ts, user_id, transaction_id, kwargs, fault) ==
    LET found == Matching(db, user_id, transaction_id)
    IN IF found # {}
       THEN LET transaction == CHOOSE r \in found : TRUE
            IN [pending |-> (db \ {transaction})
                              \cup {onupdate(transaction,
                                             setattrs(transaction, kwargs),
                                             ts)},
                ret |-> TRUE, exc |-> BodyExc(fault)]
       ELSE [pending |-> db, ret |-> FALSE, exc |-> BodyExc(fault)]

\* The flush at commit: a primary key moved onto another row's id violates
\* the key, an IntegrityError (a SQLAlchemyError).
FlushExc(db, user_id, transaction_id, kwargs) ==
    LET found == Matching(db, user_id, transaction_id)
    IN IF /\ found # {}
          /\ \E r \in found :
                setattrs(r, kwargs).id \in Ids(db \ {r})
       THEN "SQLAlchemyError" ELSE NoExc

UpdateTransaction(user_id, transaction_id, kwargs, fault) ==
    /\ LET body == update_transaction_body(rows, now, user_id,
                                           transaction_id, kwargs, fault)
           flushExc == FlushExc(rows, user_id, transaction_id, kwargs)
           commitExc == IF flushExc # NoExc THEN flushExc
                        ELSE CommitExc(fault)
           out == get_session(rows, body, commitExc)
       IN /\ rows' = out.db
          /\ last' = [op |-> "update_transaction", user |-> user_id,
                      id |-> transaction_id, fault |-> fault,
                      raised |-> out.raised, ret |-> body.ret]
    /\ UNCHANGED <<today, now, mappings, memory, sessions>>

----------------------------------------------------------------------------
(* clear_user_transactions *)

\* A clear that forgets the owner
clear_every_transaction_body(db, user_id, fault) ==
    [pending |-> {}, ret |-> Cardinality(db), exc |-> BodyExc(fault)]

clear_user_transactions_body(db, user_id, fault) ==
    LET mine == {r \in db : r.user_id = user_id}
    IN [pending |-> db \ mine, ret |-> Cardinality(mine),
        exc |-> BodyExc(fault)]

ClearUserTransactions(user_id, fault) ==
    /\ LET body == clear_user_transactions_body(rows, user_id, fault)
           out == get_session(rows, body, CommitExc(fault))
       IN /\ rows' = out.db
          /\ last' = [op |-> "clear_user_transactions", user |-> user_id,
                      fault |-> fault,
                      raised |-> out.raised, ret |-> body.ret]
    /\ UNCHANGED <<today, now, mappings, memory, sessions>>

----------------------------------------------------------------------------
(* get_balance *)

Periods == {"today", "week", "month", "year", "all"}

FloorYear == 2000                \* date(2000, 1, 1), the start of period 'all'

\* The start date of get_balance: any other period is 'all'
balance_start_date(period, td) ==
    IF period = "today" THEN td
    ELSE IF period = "week" THEN MinusDays(td, 7)
    ELSE IF period = "month" THEN Date(td.y, td.m, 1)
    ELSE IF period = "year" THEN Date(td.y, 1, 1)
    ELSE Date(FloorYear, 1, 1)

isoformat(dt) == <<dt.y, dt.m, dt.d>>

RECURSIVE SumAmounts(_)
\* func.sum(Transaction.amount) over the selected rows
SumAmounts(S) ==
    IF S = {} THEN 0
    ELSE LET r == CHOOSE r \in S : TRUE
         IN r.amount + SumAmounts(S \ {r})

\* A filter that forgets the owner
balance_filter_any_user(db, user_id, type, start_date) ==
    {r \in db : r.type = type /\ DateGE(r.date, start_date)}

\* The rows one of the two queries of get_balance selects
balance_filter(db, user_id, type, start_date) ==
    {r \in db : /\ r.user_id = user_id
                /\ r.type = type
                /\ DateGE(r.date, start_date)}

\* .scalar() or 0.0: no row gives None, and None or a zero sum gives 0.0
scalar_or_zero(S) == IF S = {} THEN 0 ELSE SumAmounts(S)

\* A balance that adds the expenses
get_balance_body_adding(db, td, user_id, period, fault) ==
    LET start_date == balance_start_date(period, td)
        income == scalar_or_zero(balance_filter(db, user_id, "income", start_date))
        expenses == scalar_or_zero(balance_filter(db, user_id, "expense", start_date))
    IN [pending |-> db,
        ret |-> [income |-> income, expenses |-> expenses,
                 balance |-> income + expenses, period |-> period,
                 start_date |-> isoformat(start_date)],
        exc |-> BodyExc(fault)]

get_balance_body(db, td, user_id, period, fault) ==
    LET start_date == balance_start_date(period, td)
        income == scalar_or_zero(balance_filter(db, user_id, "income", start_date))
        expenses == scalar_or_zero(balance_filter(db, user_id, "expense", start_date))
    IN [pending |-> db,
        ret |-> [income |-> income, expenses |-> expenses,
                 balance |-> income - expenses, period |-> period,
                 start_date |-> isoformat(start_date)],
        exc |-> BodyExc(fault)]

GetBalance(user_id, period, fault) ==
    /\ LET body == get_balance_body(rows, today, user_id, period, fault)
           out == get_session(rows, body, CommitExc(fault))
       IN /\ rows' = out.db
          /\ last' = [op |-> "get_balance", user |-> user_id,
                      period |-> period, fault |-> fault,
                      raised |-> out.raised, ret |-> body.ret]
    /\ UNCHANGED <<today, now, mappings, memory, sessions>>

----------------------------------------------------------------------------
(* list_transactions *)

DefaultLimit == 10

LimitInputs == {1, DefaultLimit}

\* if type: / if category: / if period: -- None and '' are no filter
Truthy(str) == str \notin {NoneStr, ""}

\* The start date of list_transactions: the chain has no else branch, so
\* another period leaves start_date unbound
list_start_date(period, td) ==
    IF period = "today" THEN [bound |-> TRUE, date |-> td]
    ELSE IF period = "week" THEN [bound |-> TRUE, date |-> MinusDays(td, 7)]
    ELSE IF period = "month" THEN [bound |-> TRUE, date |-> Date(td.y, td.m, 1)]
    ELSE IF period = "year" THEN [bound |-> TRUE, date |-> Date(td.y, 1, 1)]
    ELSE [bound |-> FALSE, date |-> NoDate]

list_filter(db, td, user_id, type, period, category) ==
    {r \in db :
        /\ r.user_id = user_id
        /\ Truthy(type) => r.type = type
        /\ Truthy(category) => r.category = category
        /\ Truthy(period) => DateGE(r.date, list_start_date(period, td).date)}

Min(a, b) == IF a < b THEN a ELSE b

\* order_by(Transaction.date.desc()).limit(limit).all(): the sequences of
\* Min(limit, n) different selected rows, latest date first, that leave out
\* no row later than one they hold. Rows of one date come in any order.
order_by_date_desc_limit(S, limit) ==
    {q \in [1 .. Min(limit, Cardinality(S)) -> S] :
        /\ \A i, j \in DOMAIN q : i < j =>
                /\ q[i] # q[j]
                /\ DateGE(q[i].date, q[j].date)
        /\ \A r \in S : (\A i \in DOMAIN q : q[i] # r) =>
                \A i \in DOMAIN q : DateGE(q[i].date, r.date)}

\* The results list_transactions may return
list_transactions_results(db, td, user_id, limit, type, period, category) ==
    {[i \in DOMAIN q |-> to_dict(q[i])] :
        q \in order_by_date_desc_limit(
                 list_filter(db, td, user_id, type, period, category), limit)}

\* if period: ... query.filter(Transaction.date >= start_date) reads a
\* start_date no branch assigned
list_transactions_exc(period, td, fault) ==
    IF BodyExc(fault) # NoExc THEN BodyExc(fault)
    ELSE IF Truthy(period) /\ ~list_start_date(period, td).bound
         THEN "UnboundLocalError"
         ELSE NoExc

ListTransactions(user_id, limit, type, period, category, fault) ==
    /\ LET exc == list_transactions_exc(period, today, fault)
       IN \E res \in (IF exc = NoExc
                      THEN list_transactions_results(rows, today, user_id,
                                                     limit, type, period,
                                                     category)
                      ELSE {<<>>}) :
            LET body == [pending |-> rows, ret |-> res, exc |-> exc]
                out == get_session(rows, body, CommitExc(fault))
            IN /\ rows' = out.db
               /\ last' = [op |-> "list_transactions", user |-> user_id,
                           limit |-> limit, type |-> type, period |-> period,
                           category |-> category, fault |-> fault,
                           raised |-> out.raised, ret |-> body.ret]
    /\ UNCHANGED <<today, now, mappings, memory, sessions>>

----------------------------------------------------------------------------
(* get_category_summary *)

SummaryPeriods == {"today", "week", "month", "year"}

\* The start date of get_category_summary: any other period is 'year'
summary_start_date(period, td) ==
    IF period = "today" THEN td
    ELSE IF period = "week" THEN MinusDays(td, 7)
    ELSE IF period = "month" THEN Date(td.y, td.m, 1)
    ELSE Date(td.y, 1, 1)

summary_filter(db, user_id, start_date) ==
    {r \in db : r.user_id = user_id /\ DateGE(r.date, start_date)}

\* A grouping by category alone
group_by_category(S) ==
    {[category |-> r.category, type |-> r.type,
      total |-> SumAmounts({x \in S : x.category = r.category}),
      count |-> Cardinality({x \in S : x.category = r.category})]
     : r \in S}

\* group_by(Transaction.category, Transaction.type): one result row
\* (category, type, sum(amount), count(id)) for each pair with rows
group_by_category_type(S) ==
    {[category |-> r.category, type |-> r.type,
      total |-> SumAmounts({x \in S : x.category = r.category /\ x.type = r.type}),
      count |-> Cardinality({x \in S : x.category = r.category /\ x.type = r.type})]
     : r \in S}

\* total / count, exactly: the whole part and the remainder over count
Quotient(total, count) == [whole |-> total \div count, rest |-> total % count,
                           over |-> count]

ZeroQuotient == [whole |-> 0, rest |-> 0, over |-> 1]

category_data(g) ==
    [total |-> g.total, count |-> g.count,
     average |-> IF g.count > 0 THEN Quotient(g.total, g.count)
                 ELSE ZeroQuotient]

\* summary['expenses'][category] for the groups of type 'expense',
\* summary['income'][category] for every other group
summary_section(results, expense) ==
    LET mine == {g \in results : (g.type = "expense") = expense}
    IN [c \in {g.category : g \in mine} |->
           category_data(CHOOSE g \in mine : g.category = c)]

get_category_summary_body(db, td, user_id, period, fault) ==
    LET start_date == summary_start_date(period, td)
        results == group_by_category_type(summary_filter(db, user_id, start_date))
    IN [pending |-> db,
        ret |-> [expenses |-> summary_section(results, TRUE),
                 income |-> summary_section(results, FALSE),
                 period |-> period,
                 start_date |-> isoformat(start_date)],
        exc |-> BodyExc(fault)]

GetCategorySummary(user_id, period, fault) ==
    /\ LET body == get_category_summary_body(rows, today, user_id, period, fault)
           out == get_session(rows, body, CommitExc(fault))
       IN /\ rows' = out.db
          /\ last' = [op |-> "get_category_summary", user |-> user_id,
                      period |-> period, fault |-> fault,
                      raised |-> out.raised, ret |-> body.ret]
    /\ UNCHANGED <<today, now, mappings, memory, sessions>>

----------------------------------------------------------------------------
(* Table category_mappings and its seeding at construction *)

Entry(keyword, category, type) ==
    [keyword |-> keyword, category |-> category, type |-> type]

\* The class's dict, in the order its items() come: the order it is written in
CATEGORY_KEYWORDS ==
    << Entry("almoço", "Alimentação", "expense"),
       Entry("jantar", "Alimentação", "expense"),
       Entry("café", "Alimentação", "expense"),
       Entry("lanche", "Alimentação", "expense"),
       Entry("restaurante", "Alimentação", "expense"),
       Entry("mercado", "Alimentação", "expense"),
       Entry("supermercado", "Alimentação", "expense"),
       Entry("ifood", "Alimentação", "expense"),
       Entry("delivery", "Alimentação", "expense"),
       Entry("uber", "Transporte", "expense"),
       Entry("99", "Transporte", "expense"),
       Entry("taxi", "Transporte", "expense"),
       Entry("ônibus", "Transporte", "expense"),
       Entry("metrô", "Transporte", "expense"),
       Entry("gasolina", "Transporte", "expense"),
       Entry("combustível", "Transporte", "expense"),
       Entry("estacionamento", "Transporte", "expense"),
       Entry("aluguel", "Moradia", "expense"),
       Entry("condomínio", "Moradia", "expense"),
       Entry("luz", "Moradia", "expense"),
       Entry("água", "Moradia", "expense"),
       Entry("internet", "Moradia", "expense"),
       Entry("gás", "Moradia", "expense"),
       Entry("netflix", "Assinaturas", "expense"),
       Entry("spotify", "Assinaturas", "expense"),
       Entry("amazon", "Assinaturas", "expense"),
       Entry("disney", "Assinaturas", "expense"),
       Entry("salário", "Salário", "income"),
       Entry("freelance", "Freelance", "income"),
       Entry("freela", "Freelance", "income"),
       Entry("venda", "Vendas", "income"),
       Entry("dividendos", "Investimentos", "income"),
       Entry("rendimento", "Investimentos", "income") >>

\* The characters of each keyword
Spelling ==
    ("almoço" :> <<"a", "l", "m", "o", "ç", "o">>)
    @@ ("jantar" :> <<"j", "a", "n", "t", "a", "r">>)
    @@ ("café" :> <<"c", "a", "f", "é">>)
    @@ ("lanche" :> <<"l", "a", "n", "c", "h", "e">>)
    @@ ("restaurante" :> <<"r", "e", "s", "t", "a", "u", "r", "a", "n", "t", "e">>)
    @@ ("mercado" :> <<"m", "e", "r", "c", "a", "d", "o">>)
    @@ ("supermercado" :> <<"s", "u", "p", "e", "r", "m", "e", "r", "c", "a", "d", "o">>)
    @@ ("ifood" :> <<"i", "f", "o", "o", "d">>)
    @@ ("delivery" :> <<"d", "e", "l", "i", "v", "e", "r", "y">>)
    @@ ("uber" :> <<"u", "b", "e", "r">>)
    @@ ("99" :> <<"9", "9">>)
    @@ ("taxi" :> <<"t", "a", "x", "i">>)
    @@ ("ônibus" :> <<"ô", "n", "i", "b", "u", "s">>)
    @@ ("metrô" :> <<"m", "e", "t", "r", "ô">>)
    @@ ("gasolina" :> <<"g", "a", "s", "o", "l", "i", "n", "a">>)
    @@ ("combustível" :> <<"c", "o", "m", "b", "u", "s", "t", "í", "v", "e", "l">>)
    @@ ("estacionamento" :> <<"e", "s", "t", "a", "c", "i", "o", "n", "a", "m", "e", "n", "t", "o">>)
    @@ ("aluguel" :> <<"a", "l", "u", "g", "u", "e", "l">>)
    @@ ("condomínio" :> <<"c", "o", "n", "d", "o", "m", "í", "n", "i", "o">>)
    @@ ("luz" :> <<"l", "u", "z">>)
    @@ ("água" :> <<"á", "g", "u", "a">>)
    @@ ("internet" :> <<"i", "n", "t", "e", "r", "n", "e", "t">>)
    @@ ("gás" :> <<"g", "á", "s">>)
    @@ ("netflix" :> <<"n", "e", "t", "f", "l", "i", "x">>)
    @@ ("spotify" :> <<"s", "p", "o", "t", "i", "f", "y">>)
    @@ ("amazon" :> <<"a", "m", "a", "z", "o", "n">>)
    @@ ("disney" :> <<"d", "i", "s", "n", "e", "y">>)
    @@ ("salário" :> <<"s", "a", "l", "á", "r", "i", "o">>)
    @@ ("freelance" :> <<"f", "r", "e", "e", "l", "a", "n", "c", "e">>)
    @@ ("freela" :> <<"f", "r", "e", "e", "l", "a">>)
    @@ ("venda" :> <<"v", "e", "n", "d", "a">>)
    @@ ("dividendos" :> <<"d", "i", "v", "i", "d", "e", "n", "d", "o", "s">>)
    @@ ("rendimento" :> <<"r", "e", "n", "d", "i", "m", "e", "n", "t", "o">>)

CategoryMapping(id, keyword, category, type) ==
    [id |-> id, keyword |-> keyword, category |-> category, type |-> type]

\* A lookup that finds no mapping
existing_never(tbl, keyword) == {}

\* session.query(CategoryMapping).filter_by(keyword=keyword).first(), asked
\* of the table on file: the session does not flush before a query
\* (autoflush=False)
existing(tbl, keyword) == {m \in tbl : m.keyword = keyword}

RECURSIVE add_mappings(_, _)
\* session.add(mapping) for each entry in turn; the flush inserts them in
\* that order, each under the next id of the table
add_mappings(tbl, entries) ==
    IF entries = <<>> THEN tbl
    ELSE LET e == Head(entries)
         IN add_mappings(tbl \cup {CategoryMapping(NewRowId(tbl), e.keyword,
                                                   e.category, e.type)},
                         Tail(entries))

NoRet == "None"                  \* a body that returns nothing

init_category_mappings_body(tbl, fault) ==
    LET absent(e) == existing(tbl, e.keyword) = {}
    IN [pending |-> add_mappings(tbl, SelectSeq(CATEGORY_KEYWORDS, absent)),
        ret |-> NoRet,
        exc |-> BodyExc(fault)]

\* keyword = Column(String(100), unique=True): a flush that leaves two rows
\* of one keyword violates the constraint, an IntegrityError
MappingsFlushExc(pending) ==
    IF \E m, n \in pending : m # n /\ m.keyword = n.keyword
    THEN "SQLAlchemyError" ELSE NoExc

\* The table after the store is constructed on a new file
Seeded ==
    get_session({}, init_category_mappings_body({}, "none"), NoExc).db

\* The memory store with no document, and no unit of work in flight
\* The memory store holds no document
NoDocuments == <<>>

\* No session has been made
NoSessions == <<>>

----------------------------------------------------------------------------
(* Texts: a str is the sequence of its characters *)

NoText == <<"None">>             \* None passed for an optional text

\* if not description: None and '' are no description
NotText(text) == text = NoText \/ text = <<>>

\* The lower-case form of the capital letters
LowerOf ==
    ("A" :> "a") @@ ("B" :> "b") @@ ("C" :> "c") @@ ("D" :> "d") @@ ("E" :> "e")
    @@ ("F" :> "f") @@ ("G" :> "g") @@ ("H" :> "h") @@ ("I" :> "i") @@ ("J" :> "j")
    @@ ("K" :> "k") @@ ("L" :> "l") @@ ("M" :> "m") @@ ("N" :> "n") @@ ("O" :> "o")
    @@ ("P" :> "p") @@ ("Q" :> "q") @@ ("R" :> "r") @@ ("S" :> "s") @@ ("T" :> "t")
    @@ ("U" :> "u") @@ ("V" :> "v") @@ ("W" :> "w") @@ ("X" :> "x") @@ ("Y" :> "y")
    @@ ("Z" :> "z") @@ ("Á" :> "á") @@ ("É" :> "é") @@ ("Í" :> "í") @@ ("Ó" :> "ó")
    @@ ("Ô" :> "ô") @@ ("Ú" :> "ú") @@ ("Ã" :> "ã") @@ ("Õ" :> "õ") @@ ("Ç" :> "ç")

\* A lower that leaves the text as it is
lower_unchanged(text) == text

\* str.lower()
lower(text) ==
    [i \in DOMAIN text |->
        IF text[i] \in DOMAIN LowerOf THEN LowerOf[text[i]] ELSE text[i]]

\* part in text: part is a run of consecutive characters of text
str_in(part, text) ==
    \E i \in 1 .. (Len(text) - Len(part) + 1) :
        SubSeq(text, i, i + Len(part) - 1) = part

RECURSIVE join(_, _)
\* sep.join(parts)
join(sep, parts) ==
    IF parts = <<>> THEN <<>>
    ELSE IF Len(parts) = 1 THEN Head(parts)
    ELSE Head(parts) \o sep \o join(sep, Tail(parts))

----------------------------------------------------------------------------
(* infer_category *)

DefaultInference == <<"Outros", "expense">>

RECURSIVE by_id_desc(_)
\* The rows of a table from the largest id to the smallest
by_id_desc(tbl) ==
    IF tbl = {} THEN <<>>
    ELSE LET m == CHOOSE m \in tbl : \A n \in tbl : m.id >= n.id
         IN <<m>> \o by_id_desc(tbl \ {m})

RECURSIVE by_id(_)
\* session.query(CategoryMapping).all(): SQLite reads the table in the
\* order of its rowid, which is the id
by_id(tbl) ==
    IF tbl = {} THEN <<>>
    ELSE LET m == CHOOSE m \in tbl : \A n \in tbl : m.id <= n.id
         IN <<m>> \o by_id(tbl \ {m})

RECURSIVE first_match(_, _)
\* for mapping in ...: if mapping.keyword in description_lower: return
first_match(all, description_lower) ==
    IF all = <<>> THEN DefaultInference
    ELSE IF str_in(Spelling[Head(all).keyword], description_lower)
         THEN <<Head(all).category, Head(all).type>>
         ELSE first_match(Tail(all), description_lower)

\* The unit of work of infer_category: it reads the table and returns from
\* inside the with block
infer_category_body(tbl, description, fault) ==
    [pending |-> tbl,
     ret |-> first_match(by_id(tbl), lower(description)),
     exc |-> BodyExc(fault)]

\* infer_category: no description is answered before a session is opened
infer_category(tbl, description, fault) ==
    IF NotText(description)
    THEN [db |-> tbl, raised |-> NoExc, ret |-> DefaultInference]
    ELSE LET body == infer_category_body(tbl, description, fault)
             out == get_session(tbl, body, CommitExc(fault))
         IN [db |-> out.db, raised |-> out.raised, ret |-> body.ret]

InferCategory(description, fault) ==
    /\ LET out == infer_category(mappings, description, fault)
       IN /\ mappings' = out.db
          /\ last' = [op |-> "infer_category", user |-> NoneStr,
                      description |-> description, fault |-> fault,
                      raised |-> out.raised, ret |-> out.ret]
    /\ UNCHANGED <<rows, today, now, memory, sessions>>

----------------------------------------------------------------------------
(* The ledger's life: the store is created on an empty file, then written *)

NoCall == [op |-> "init", user |-> NoneStr, fault |-> "none", raised |-> NoExc]

Init ==
    /\ rows = {}
    /\ today = FirstDay
    /\ last = NoCall
    /\ now = FirstTime
    /\ mappings = Seeded
    /\ memory = NoDocuments
    /\ sessions = NoSessions

Next ==
    \/ \E u \in Users, a \in AmountInputs, t \in Types, c \in Categories,
          ds \in Descriptions, d \in DateInputs, th \in ThreadIds,
          f \in Faults :
            AddTransaction(u, a, t, c, ds, d, th, f)
    \/ \E u \in Users, i \in IdInputs, f \in Faults :
            DeleteTransaction(u, i, f)
    \/ \E u \in Users, i \in IdInputs, kw \in KwargsSet, f \in Faults :
            UpdateTransaction(u, i, kw, f)
    \/ \E u \in Users, f \in Faults : ClearUserTransactions(u, f)

Spec == Init /\ [][Next]_vars

----------------------------------------------------------------------------
(* The queries, asked of a ledger that add_transaction filled *)

\* The start of every period as seen on day td, and days before them
BoundaryDates(td) ==
    { td, MinusDays(td, 7), MinusDays(td, 8), Date(td.y, td.m, 1),
      Date(td.y, 1, 1), Date(FloorYear, 1, 1), PrevDay(Date(FloorYear, 1, 1)) }

AddArgs(user_id, amount, type, category, transaction_date) ==
    [user_id |-> user_id, amount |-> amount, type |-> type,
     category |-> category, transaction_date |-> transaction_date]

\* add_transaction calls that fill the ledger: one user's transactions of
\* every boundary date (income 5000, expense 45), and both users' undated
\* transactions of every category and type (5000 in one category, -45 in
\* the other)
QueryAdds(td) ==
    {AddArgs("u1", IF t = "income" THEN 5000 ELSE 45, t, "Outros", d) :
        t \in Types, d \in BoundaryDates(td)}
    \cup {AddArgs(u, IF c = "Outros" THEN 5000 ELSE -45, t, c, NoDate) :
        u \in Users, t \in Types, c \in Categories}

RECURSIVE Filled(_, _, _)
\* The table after the calls of sequence adds, each committed
Filled(db, td, adds) ==
    IF adds = <<>> THEN db
    ELSE LET a == Head(adds)
             body == add_transaction_body(db, td, FirstTime, a.user_id,
                                          a.amount, a.type, a.category,
                                          <<"None">>, a.transaction_date,
                                          NoneStr, "none")
         IN Filled(get_session(db, body, NoExc).db, td, Tail(adds))

\* The queries run with no storage failure
QueryFaults == {"none"}

InitQuery ==
    \E n \in 0 .. MaxRows :
        \E adds \in [1 .. n -> QueryAdds(FirstDay)] :
            /\ rows = Filled({}, FirstDay, adds)
            /\ today = FirstDay
            /\ last = NoCall
            /\ now = FirstTime
            /\ mappings = Seeded
            /\ memory = NoDocuments
            /\ sessions = NoSessions

NextQuery ==
    \/ \E u \in Users, p \in Periods, f \in QueryFaults : GetBalance(u, p, f)
    \/ \E u \in Users, l \in LimitInputs, t \in {NoneStr, "income"},
          p \in {NoneStr} \cup Periods, c \in {NoneStr, "Outros"},
          f \in QueryFaults :
            ListTransactions(u, l, t, p, c, f)
    \/ \E u \in Users, p \in SummaryPeriods, f \in QueryFaults :
            GetCategorySummary(u, p, f)

SpecQuery == InitQuery /\ [][NextQuery]_vars

----------------------------------------------------------------------------
(* The inference, asked of the store constructed on a new file *)

MaxWords == 2                    \* words of a description

Space == <<" ">>

\* Words with a keyword at the start, inside and in capitals, with two
\* keywords in one word, and with none
Vocabulary ==
    {
      <<"a", "l", "m", "o", "ç", "o">>,    \* almoço
      <<"U", "b", "e", "r">>,    \* Uber
      <<"S", "A", "L", "Á", "R", "I", "O">>,    \* SALÁRIO
      <<"s", "u", "p", "e", "r", "m", "e", "r", "c", "a", "d", "o">>,    \* supermercado
      <<"f", "r", "e", "e", "l", "a", "n", "c", "e", "r">>,    \* freelancer
      <<"r", "e", "v", "e", "n", "d", "a">>,    \* revenda
      <<"1", "9", "9", "0">>,    \* 1990
      <<"p", "i", "z", "z", "a">> }    \* pizza

\* "Gastei 45 no almoço" and "Recebi 5000 de salário"
Sentences ==
    { join(Space, <<<<"G", "a", "s", "t", "e", "i">>, <<"4", "5">>, <<"n", "o">>, <<"a", "l", "m", "o", "ç", "o">>>>),
      join(Space, <<<<"R", "e", "c", "e", "b", "i">>, <<"5", "0", "0", "0">>, <<"d", "e">>, <<"s", "a", "l", "á", "r", "i", "o">>>>) }

InferInputs ==
    {NoText}
    \cup {join(Space, ws) : ws \in UNION {[1 .. n -> Vocabulary] : n \in 0 .. MaxWords}}
    \cup Sentences

InitInfer ==
    /\ rows = {}
    /\ today = FirstDay
    /\ last = NoCall
    /\ now = FirstTime
    /\ mappings = Seeded
    /\ memory = NoDocuments
    /\ sessions = NoSessions

NextInfer == \E d \in InferInputs, f \in Faults : InferCategory(d, f)

SpecInfer == InitInfer /\ [][NextInfer]_vars

----------------------------------------------------------------------------
(* Construction of the store on a ledger file that may hold mappings *)

\* __init__: create_all, then _init_category_mappings in its unit of work.
\* had is the number of mappings the file held when the call began.
Construct(fault) ==
    /\ LET body == init_category_mappings_body(mappings, fault)
           flushExc == MappingsFlushExc(body.pending)
           commitExc == IF flushExc # NoExc THEN flushExc
                        ELSE CommitExc(fault)
           out == get_session(mappings, body, commitExc)
       IN /\ mappings' = out.db
          /\ last' = [op |-> "__init__", user |-> NoneStr, fault |-> fault,
                      raised |-> out.raised, had |-> Cardinality(mappings)]
    /\ UNCHANGED <<rows, today, now, memory, sessions>>

\* Mappings a file may hold before the store is constructed on it: a
\* default keyword under another category, a default mapping as it is, a
\* keyword that is no default, a default keyword under a high id
FileMappings ==
    { CategoryMapping(1, "almoço", "Restaurantes", "expense"),
      CategoryMapping(2, "salário", "Salário", "income"),
      CategoryMapping(3, "pix", "Transferências", "income"),
      CategoryMapping(40, "uber", "Aplicativos", "expense") }

InitSeed ==
    /\ rows = {}
    /\ today = FirstDay
    /\ last = NoCall
    /\ now = FirstTime
    /\ mappings \in SUBSET FileMappings
    /\ memory = NoDocuments
    /\ sessions = NoSessions

NextSeed == \E f \in Faults : Construct(f)

SpecSeed == InitSeed /\ [][NextSeed]_vars

----------------------------------------------------------------------------
(* The tools add_transaction and update_transaction (financial_tools.py) *)

MaxToolRows == 1      \* rows the ledger holds at most when a tool adds one

\* datetime.strptime(text, "%Y-%m-%d").date() when year_first, and
\* datetime.strptime(text, "%d/%m/%Y").date() otherwise, with sep the
\* separator of the format: NoDate stands for a ValueError
strptime_date(text, sep, year_first) ==
    LET DigitOf == ("0" :> 0) @@ ("1" :> 1) @@ ("2" :> 2) @@ ("3" :> 3)
                   @@ ("4" :> 4) @@ ("5" :> 5) @@ ("6" :> 6) @@ ("7" :> 7)
                   @@ ("8" :> 8) @@ ("9" :> 9)
        seps == {i \in DOMAIN text : text[i] = sep}
        i1 == CHOOSE i \in seps : \A j \in seps : i <= j
        i2 == CHOOSE i \in seps : \A j \in seps : i >= j
        f1 == SubSeq(text, 1, i1 - 1)
        f2 == SubSeq(text, i1 + 1, i2 - 1)
        f3 == SubSeq(text, i2 + 1, Len(text))
        digits(f) == \A k \in DOMAIN f : f[k] \in DOMAIN DigitOf
        value(f) ==
            IF Len(f) = 1 THEN DigitOf[f[1]]
            ELSE IF Len(f) = 2 THEN 10 * DigitOf[f[1]] + DigitOf[f[2]]
            ELSE 1000 * DigitOf[f[1]] + 100 * DigitOf[f[2]]
                 + 10 * DigitOf[f[3]] + DigitOf[f[4]]
        yf == IF year_first THEN f1 ELSE f3
        df == IF year_first THEN f3 ELSE f1
    IN IF /\ Cardinality(seps) = 2
          /\ digits(f1) /\ digits(f2) /\ digits(f3)
          /\ Len(yf) = 4 /\ Len(f2) \in {1, 2} /\ Len(df) \in {1, 2}
          /\ value(yf) >= 1
          /\ value(f2) \in 1 .. 12
          /\ value(df) \in 1 .. DaysInMonth(value(yf), value(f2))
       THEN Date(value(yf), value(f2), value(df))
       ELSE NoDate

\* if date_str: try the first format, on ValueError the second, on
\* ValueError pass: transaction_date stays None
parse_date_str(date_str) ==
    IF NotText(date_str) THEN NoDate
    ELSE IF strptime_date(date_str, "-", TRUE) # NoDate
         THEN strptime_date(date_str, "-", TRUE)
         ELSE strptime_date(date_str, "/", FALSE)

\* A tool that takes the inferred type whatever the caller passed
add_tool_inference_taking_type(tbl, type, category, description, fault) ==
    IF ~Truthy(category) /\ ~NotText(description)
    THEN LET inferred == infer_category(tbl, description, fault)
         IN [category |-> inferred.ret[1], type |-> inferred.ret[2],
             raised |-> inferred.raised]
    ELSE [category |-> IF ~Truthy(category) THEN "Outros" ELSE category,
          type |-> type, raised |-> NoExc]

\* if not category and description: infer; category = category or inferred;
\* if description and not type: type = inferred_type
\* elif not category: category = "Outros"
add_tool_inference(tbl, type, category, description, fault) ==
    IF ~Truthy(category) /\ ~NotText(description)
    THEN LET inferred == infer_category(tbl, description, fault)
         IN [category |-> IF Truthy(category) THEN category
                          ELSE inferred.ret[1],
             type |-> IF ~Truthy(type) THEN inferred.ret[2] ELSE type,
             raised |-> inferred.raised]
    ELSE [category |-> IF ~Truthy(category) THEN "Outros" ELSE category,
          type |-> type, raised |-> NoExc]

\* run of _make_add_transaction: what it makes of the ledger and what it
\* answers: registered with the id, or the error text of an exception.
\* infer_fault is the failure of the unit of work of infer_category, fault
\* that of add_transaction.
add_transaction_tool(db, tbl, td, ts, user_id, thread_id, amount, type, category, description, date_str, infer_fault, fault) ==
    LET inference == add_tool_inference(tbl, type, category, description,
                                        infer_fault)
        transaction_date == parse_date_str(date_str)
        body == add_transaction_body(
                    db, td, ts, user_id, Abs(amount), inference.type,
                    IF Truthy(inference.category) THEN inference.category
                    ELSE "Outros",
                    description, transaction_date, thread_id, fault)
        out == get_session(db, body, CommitExc(fault))
    IN IF inference.raised # NoExc
       THEN [db |-> db, ret |-> [status |-> "error", id |-> 0]]
       ELSE IF out.raised # NoExc
            THEN [db |-> out.db, ret |-> [status |-> "error", id |-> 0]]
            ELSE [db |-> out.db,
                  ret |-> [status |-> "registered", id |-> body.ret]]

AddTransactionTool(user_id, amount, type, category, description, date_str, infer_fault, fault) ==
    /\ Cardinality(rows) < MaxToolRows
    /\ LET out == add_transaction_tool(rows, mappings, today, now, user_id,
                                       NoneStr, amount, type, category,
                                       description, date_str, infer_fault,
                                       fault)
       IN /\ rows' = out.db
          /\ last' = [op |-> "tool_add_transaction", user |-> user_id,
                      type |-> type, category |-> category,
                      description |-> description, date_str |-> date_str,
                      fault |-> fault, raised |-> NoExc, ret |-> out.ret]
    /\ UNCHANGED <<today, now, mappings, memory, sessions>>

\* A field of the tool's arguments that is not None, as a keyword
tool_field(key, given, value) ==
    IF given THEN (key :> KwVal(value)) ELSE <<>>

\* run of _make_update_transaction: the date is parsed as in the add tool,
\* the fields that are not None are collected (the amount as abs(amount)),
\* and the store is called unless there is none
update_transaction_tool(db, ts, user_id, transaction_id, amount, type, category, description, date_str, fault) ==
    LET transaction_date == parse_date_str(date_str)
        fields == tool_field("amount", amount # 0, Abs(amount))
                  @@ tool_field("type", type # NoneStr, type)
                  @@ tool_field("category", category # NoneStr, category)
                  @@ tool_field("description", description # NoText,
                                description)
                  @@ tool_field("date", transaction_date # NoDate,
                                transaction_date)
        body == update_transaction_body(db, ts, user_id, transaction_id,
                                        fields, fault)
        out == get_session(db, body, CommitExc(fault))
    IN IF fields = <<>>
       THEN [db |-> db, ret |-> [status |-> "nothing to change", id |-> 0]]
       ELSE IF out.raised # NoExc
            THEN [db |-> out.db, ret |-> [status |-> "error", id |-> 0]]
            ELSE IF body.ret
                 THEN [db |-> out.db,
                       ret |-> [status |-> "updated", id |-> transaction_id]]
                 ELSE [db |-> out.db,
                       ret |-> [status |-> "not found", id |-> transaction_id]]

\* amount 0 stands for amount = None
UpdateTransactionTool(user_id, transaction_id, amount, type, category, description, date_str, fault) ==
    /\ LET out == update_transaction_tool(rows, now, user_id, transaction_id,
                                          amount, type, category,
                                          description, date_str, fault)
       IN /\ rows' = out.db
          /\ last' = [op |-> "tool_update_transaction", user |-> user_id,
                      id |-> transaction_id, amount |-> amount,
                      type |-> type, category |-> category,
                      description |-> description, date_str |-> date_str,
                      fault |-> fault, raised |-> NoExc, ret |-> out.ret]
    /\ UNCHANGED <<today, now, mappings, memory, sessions>>

\* The characters of each category name of DEFAULT_CATEGORIES
category_text ==
    ("Alimentação" :> <<"A", "l", "i", "m", "e", "n", "t", "a", "ç", "ã", "o">>)
    @@ ("Transporte" :> <<"T", "r", "a", "n", "s", "p", "o", "r", "t", "e">>)
    @@ ("Moradia" :> <<"M", "o", "r", "a", "d", "i", "a">>)
    @@ ("Saúde" :> <<"S", "a", "ú", "d", "e">>)
    @@ ("Educação" :> <<"E", "d", "u", "c", "a", "ç", "ã", "o">>)
    @@ ("Lazer" :> <<"L", "a", "z", "e", "r">>)
    @@ ("Compras" :> <<"C", "o", "m", "p", "r", "a", "s">>)
    @@ ("Serviços" :> <<"S", "e", "r", "v", "i", "ç", "o", "s">>)
    @@ ("Assinaturas" :> <<"A", "s", "s", "i", "n", "a", "t", "u", "r", "a", "s">>)
    @@ ("Outros" :> <<"O", "u", "t", "r", "o", "s">>)
    @@ ("Salário" :> <<"S", "a", "l", "á", "r", "i", "o">>)
    @@ ("Freelance" :> <<"F", "r", "e", "e", "l", "a", "n", "c", "e">>)
    @@ ("Investimentos" :> <<"I", "n", "v", "e", "s", "t", "i", "m", "e", "n", "t", "o", "s">>)
    @@ ("Vendas" :> <<"V", "e", "n", "d", "a", "s">>)
    @@ ("Reembolso" :> <<"R", "e", "e", "m", "b", "o", "l", "s", "o">>)
    @@ ("Presente" :> <<"P", "r", "e", "s", "e", "n", "t", "e">>)

\* run of _make_search_transactions over the list the store returned (exc is
\* what list_transactions raised): the loop takes a transaction when the
\* lowered term is in its lowered category or in its lowered description,
\* and stops once len(filtered) >= limit; trans.get("description", "") is
\* None for a transaction without description, and None.lower() raises
\* when the category did not match; except Exception returns the error text
search_transactions_tool(all_transactions, exc, search_term, limit) ==
    LET search_lower == lower(search_term)
        in_category(trans) ==
            str_in(search_lower, lower(category_text[trans.category]))
        RECURSIVE loop(_, _)
        loop(i, filtered) ==
            IF i > Len(all_transactions)
            THEN [exc |-> NoExc, filtered |-> filtered]
            ELSE LET trans == all_transactions[i]
                 IN IF ~in_category(trans) /\ trans.description = NoText
                    THEN [exc |-> "AttributeError", filtered |-> filtered]
                    ELSE IF in_category(trans)
                            \/ str_in(search_lower, lower(trans.description))
                         THEN IF Len(filtered) + 1 >= limit
                              THEN [exc |-> NoExc,
                                    filtered |-> Append(filtered, trans)]
                              ELSE loop(i + 1, Append(filtered, trans))
                         ELSE loop(i + 1, filtered)
        out == loop(1, <<>>)
    IN IF exc # NoExc \/ out.exc # NoExc
       THEN [status |-> "error", results |-> <<>>]
       ELSE IF out.filtered = <<>>
            THEN [status |-> "none found", results |-> <<>>]
            ELSE [status |-> "found", results |-> out.filtered]

\* The search tool of user_id: store.list_transactions(user_id, limit=100),
\* then the loop
SearchTransactionsTool(user_id, search_term, limit, fault) ==
    /\ LET exc == list_transactions_exc(NoneStr, today, fault)
       IN \E res \in (IF exc = NoExc
                      THEN list_transactions_results(rows, today, user_id,
                                                     100, NoneStr, NoneStr,
                                                     NoneStr)
                      ELSE {<<>>}) :
            LET body == [pending |-> rows, ret |-> res, exc |-> exc]
                out == get_session(rows, body, CommitExc(fault))
            IN /\ rows' = out.db
               /\ last' = [op |-> "tool_search_transactions",
                           user |-> user_id, search_term |-> search_term,
                           limit |-> limit, fault |-> fault,
                           raised |-> NoExc,
                           ret |-> search_transactions_tool(
                                       body.ret, out.raised, search_term,
                                       limit)]
    /\ UNCHANGED <<today, now, mappings, memory, sessions>>

\* date_str: '2024-03-01', '01/03/2024', and strings of neither format:
\* '03-01-2024', '2024-02-30' (no such day), 'amanhã'
DateStrings ==
    { <<"2", "0", "2", "4", "-", "0", "3", "-", "0", "1">>, <<"0", "1", "/", "0", "3", "/", "2", "0", "2", "4">>, <<"0", "3", "-", "0", "1", "-", "2", "0", "2", "4">>, <<"2", "0", "2", "4", "-", "0", "2", "-", "3", "0">>, <<"a", "m", "a", "n", "h", "ã">> }

ToolArgs(type, category, description, date_str) ==
    [type |-> type, category |-> category, description |-> description,
     date_str |-> date_str]

\* Calls of the add tool: every way of passing type, category and
\* description with no date, and every date string with all three passed
ToolAdds ==
    {ToolArgs(t, c, d, NoText) :
        t \in {NoneStr, "income", "expense"},
        c \in {NoneStr, "Lazer"},
        d \in {NoText, <<"A", "l", "m", "o", "ç", "o">>, <<"S", "A", "L", "Á", "R", "I", "O">>, <<"p", "i", "z", "z", "a">>}}
    \cup {ToolArgs("expense", "Lazer", <<"p", "i", "z", "z", "a">>, ds) : ds \in DateStrings}

\* Calls of the update tool: one field at a time, none, every date string
\* alone, and a date string of neither format with an amount
ToolUpdates ==
    { [amount |-> -50, type |-> NoneStr, category |-> NoneStr,
       description |-> NoText, date_str |-> NoText],
      [amount |-> 0, type |-> "income", category |-> NoneStr,
       description |-> NoText, date_str |-> NoText],
      [amount |-> 0, type |-> NoneStr, category |-> "Lazer",
       description |-> NoText, date_str |-> NoText],
      [amount |-> 0, type |-> NoneStr, category |-> NoneStr,
       description |-> <<"p", "i", "z", "z", "a">>, date_str |-> NoText],
      [amount |-> 0, type |-> NoneStr, category |-> NoneStr,
       description |-> NoText, date_str |-> NoText] }
    \cup {[amount |-> 0, type |-> NoneStr, category |-> NoneStr,
           description |-> NoText, date_str |-> ds] : ds \in DateStrings}
    \cup {[amount |-> -50, type |-> NoneStr, category |-> NoneStr,
           description |-> NoText, date_str |-> <<"0", "3", "-", "0", "1", "-", "2", "0", "2", "4">>]}

InitTools ==
    /\ rows = {}
    /\ today = FirstDay
    /\ last = NoCall
    /\ now = FirstTime
    /\ mappings = Seeded
    /\ memory = NoDocuments
    /\ sessions = NoSessions

NextTools ==
    \/ \E a \in ToolAdds, fs \in {<<"none", "none">>, <<"body", "none">>,
                                   <<"none", "body">>, <<"none", "commit">>} :
            AddTransactionTool("u1", -45, a.type, a.category, a.description,
                               a.date_str, fs[1], fs[2])
    \/ \E u \in Users, i \in 1 .. (MaxToolRows + 1), a \in ToolUpdates,
          f \in {"none", "commit"} :
            UpdateTransactionTool(u, i, a.amount, a.type, a.category,
                                  a.description, a.date_str, f)
    \/ \E u \in Users, term \in {<<"p", "i", "z">>, <<"L", "A", "Z">>, <<"x", "y", "z">>, <<>>},
          limit \in {1, 5}, f \in {"none", "body"} :
            SearchTransactionsTool(u, term, limit, f)

SpecTools == InitTools /\ [][NextTools]_vars

----------------------------------------------------------------------------
(* One call, asked of a ledger that add_transaction filled: an
   update_transaction, or the clear_user_history tool *)

LaterTime == 1                   \* datetime.now() when the update is made

\* update_transaction, with the keywords of the call kept in last
UpdateTransactionKwargs(user_id, transaction_id, kwargs, fault) ==
    /\ LET body == update_transaction_body(rows, now, user_id,
                                           transaction_id, kwargs, fault)
           flushExc == FlushExc(rows, user_id, transaction_id, kwargs)
           commitExc == IF flushExc # NoExc THEN flushExc
                        ELSE CommitExc(fault)
           out == get_session(rows, body, commitExc)
       IN /\ rows' = out.db
          /\ last' = [op |-> "update_transaction", user |-> user_id,
                      id |-> transaction_id, kwargs |-> kwargs,
                      fault |-> fault, raised |-> out.raised,
                      ret |-> body.ret]
    /\ UNCHANGED <<today, now, mappings, memory, sessions>>

\* A tool that clears whatever confirm says
clear_user_history_tool_unconfirmed(db, user_id, confirm, fault) ==
    LET body == clear_user_transactions_body(db, user_id, fault)
        out == get_session(db, body, CommitExc(fault))
    IN [db |-> out.db, called |-> TRUE,
        ret |-> [status |-> "cleared", count |-> body.ret]]

\* The clear_user_history tool of user_id: if confirm != "SIM" it returns
\* the cancellation, else it calls store.clear_user_transactions and returns
\* the count, or the error message when the store raised
clear_user_history_tool(db, user_id, confirm, fault) ==
    LET body == clear_user_transactions_body(db, user_id, fault)
        out == get_session(db, body, CommitExc(fault))
    IN IF confirm # "SIM"
       THEN [db |-> db, called |-> FALSE,
             ret |-> [status |-> "cancelled", count |-> 0]]
       ELSE IF out.raised # NoExc
            THEN [db |-> out.db, called |-> TRUE,
                  ret |-> [status |-> "error", count |-> 0]]
            ELSE [db |-> out.db, called |-> TRUE,
                  ret |-> [status |-> "cleared", count |-> body.ret]]

ClearUserHistoryTool(user_id, confirm, fault) ==
    /\ LET out == clear_user_history_tool(rows, user_id, confirm, fault)
       IN /\ rows' = out.db
          /\ last' = [op |-> "tool_clear_user_history", user |-> user_id,
                      confirm |-> confirm, called |-> out.called,
                      fault |-> fault, raised |-> NoExc, ret |-> out.ret]
    /\ UNCHANGED <<today, now, mappings, memory, sessions>>

\* **kwargs of the one update: those of KwargsSet, the other columns, a
\* value the row already has, and calls with two keywords
FieldKwargs ==
    KwargsSet
    \cup {("description" :> KwVal(<<"p", "i", "z", "z", "a">>)),
          ("date" :> KwVal(Date(2024, 3, 1))),
          ("thread_id" :> KwVal("t1")),
          ("updated_at" :> KwVal(7)),
          ("category" :> KwVal("Outros")),
          ("amount" :> KwVal(50)) @@ ("category" :> KwVal("Lazer")),
          ("amount" :> KwNone) @@ ("type" :> KwVal("income")),
          ("bogus" :> KwVal(1)) @@ ("amount" :> KwVal(50))}

InitUpdate ==
    \E n \in 0 .. MaxRows :
        \E adds \in [1 .. n -> QueryAdds(FirstDay)] :
            /\ rows = Filled({}, FirstDay, adds)
            /\ today = FirstDay
            /\ last = NoCall
            /\ now = LaterTime
            /\ mappings = Seeded
            /\ memory = NoDocuments
            /\ sessions = NoSessions

NextUpdate ==
    \/ \E u \in Users, i \in IdInputs, kw \in FieldKwargs, f \in Faults :
            last = NoCall /\ UpdateTransactionKwargs(u, i, kw, f)
    \/ \E u \in Users, c \in {"SIM", "NAO", "sim", ""}, f \in Faults :
            last = NoCall /\ ClearUserHistoryTool(u, c, f)

SpecUpdate == InitUpdate /\ [][NextUpdate]_vars

----------------------------------------------------------------------------
(* The namespaced memory store: the documents in the order they were first
   put, each [namespace, key, value, created_at, updated_at]. The tools of
   memory.py reach it through get_store(); put, get and search are modelled
   from its contract: put upserts the value under (namespace, key), get
   returns the document or nothing, search returns the documents of the
   namespace whose value has every field of the filter with an equal value,
   at most limit of them *)

MaxBudgets == 2       \* budget documents the store holds at most

\* put(namespace, key, value): replace the value and updated_at of the
\* document under (namespace, key), or insert a new document
put(mem, ts, namespace, key, value) ==
    IF \E i \in DOMAIN mem :
            mem[i].namespace = namespace /\ mem[i].key = key
    THEN [i \in DOMAIN mem |->
            IF mem[i].namespace = namespace /\ mem[i].key = key
            THEN [mem[i] EXCEPT !.value = value, !.updated_at = ts]
            ELSE mem[i]]
    ELSE Append(mem, [namespace |-> namespace, key |-> key, value |-> value,
                      created_at |-> ts, updated_at |-> ts])

\* get(namespace, key): <<the document>>, or <<>> when there is none
get(mem, namespace, key) ==
    LET under(d) == d.namespace = namespace /\ d.key = key
    IN SelectSeq(mem, under)

\* search(namespace, filter=filter, limit=limit)
search(mem, namespace, filter, limit) ==
    LET matches(d) ==
            /\ d.namespace = namespace
            /\ \A f \in DOMAIN filter :
                    f \in DOMAIN d.value /\ d.value[f] = filter[f]
        hits == SelectSeq(mem, matches)
    IN SubSeq(hits, 1, Min(limit, Len(hits)))

\* unicodedata.normalize("NFKD", s).encode("ascii", "ignore").decode("ascii")
\* and "-".join(s.strip().lower().split()): an accented letter becomes its
\* base letter, any other character outside ASCII is dropped; the words
\* between runs of white space (split() takes no word from the white space
\* strip() removes) are joined by "-"
_slug(s) ==
    LET Base == ("á" :> "a") @@ ("à" :> "a") @@ ("â" :> "a") @@ ("ã" :> "a")
                @@ ("é" :> "e") @@ ("ê" :> "e") @@ ("í" :> "i")
                @@ ("ó" :> "o") @@ ("ô" :> "o") @@ ("õ" :> "o")
                @@ ("ú" :> "u") @@ ("ç" :> "c")
                @@ ("Á" :> "A") @@ ("À" :> "A") @@ ("Â" :> "A") @@ ("Ã" :> "A")
                @@ ("É" :> "E") @@ ("Ê" :> "E") @@ ("Í" :> "I")
                @@ ("Ó" :> "O") @@ ("Ô" :> "O") @@ ("Õ" :> "O")
                @@ ("Ú" :> "U") @@ ("Ç" :> "C")
        NoAscii == {"€", "ø", "ß"}
        White == {" ", "\t", "\n"}
        kept(c) == c \notin NoAscii
        ascii == [i \in DOMAIN SelectSeq(s, kept) |->
                    LET c == SelectSeq(s, kept)[i]
                    IN IF c \in DOMAIN Base THEN Base[c] ELSE c]
        RECURSIVE split(_)
        split(t) ==
            IF t = <<>> THEN <<>>
            ELSE IF Head(t) \in White THEN split(Tail(t))
            ELSE LET n == CHOOSE n \in 1 .. Len(t) :
                            /\ \A i \in 1 .. n : t[i] \notin White
                            /\ n = Len(t) \/ t[n + 1] \in White
                 IN <<SubSeq(t, 1, n)>> \o split(SubSeq(t, n + 1, Len(t)))
    IN join(<<"-">>, split(lower(ascii)))

\* f"{today.year:04d}-{today.month:02d}"
month_period(td) ==
    LET digit(n) == <<"0", "1", "2", "3", "4", "5", "6", "7", "8", "9">>[n + 1]
    IN <<digit((td.y \div 1000) % 10), digit((td.y \div 100) % 10),
         digit((td.y \div 10) % 10), digit(td.y % 10), "-",
         digit((td.m \div 10) % 10), digit(td.m % 10)>>

\* A key that leaves the period out
budget_key_of_category(period, category) == _slug(category)

\* key = f"{period}:{_slug(category)}"
budget_key(period, category) == period \o <<":">> \o _slug(category)

\* The key of the profile document of a user
ProfileKey == <<"p", "r", "o", "f", "i", "l", "e">>

\* save_budget after the validation of its arguments: category is stripped
\* and not empty, period is None or is read by strptime(v, "%Y-%m")
save_budget(mem, td, ts, user_id, category, amount, period, currency) ==
    LET p == IF NotText(period) THEN month_period(td) ELSE period
        prefs == get(mem, <<user_id, "prefs">>, ProfileKey)
        cur == IF currency # NoneStr /\ currency # "" THEN currency
               ELSE IF /\ prefs # <<>>
                       /\ "currency" \in DOMAIN prefs[1].value
                       /\ prefs[1].value["currency"] # NoneStr
                       /\ prefs[1].value["currency"] # ""
                    THEN prefs[1].value["currency"]
                    ELSE "BRL"
        value == [category |-> category, amount |-> amount, period |-> p,
                  currency |-> cur, updated_at |-> ts]
    IN put(mem, ts, <<user_id, "budgets">>, budget_key(p, category), value)

\* A filter that names no field
budget_filter_empty(period) == <<>>

\* filter={"period": period}
budget_filter(period) == [period |-> period]

\* get_budget: the document under the key of (period, category), or with no
\* category the documents of the period, at most limit; found is false when
\* the tool answers that there is none
get_budget(mem, td, user_id, category, period, limit) ==
    LET p == IF NotText(period) THEN month_period(td) ELSE period
        ns == <<user_id, "budgets">>
        item == get(mem, ns, budget_key(p, category))
        docs == search(mem, ns, budget_filter(p), limit)
    IN IF ~NotText(category)
       THEN [found |-> item # <<>>,
             values |-> [i \in DOMAIN item |-> item[i].value]]
       ELSE [found |-> docs # <<>>,
             values |-> [i \in DOMAIN docs |-> docs[i].value]]

\* The budget documents of the store
Budgets(mem) ==
    LET budget(d) == d.namespace[2] = "budgets"
    IN SelectSeq(mem, budget)

SaveBudget(user_id, category, amount, period, currency) ==
    /\ LET mem == save_budget(memory, today, now, user_id, category, amount,
                              period, currency)
       IN /\ Len(Budgets(mem)) <= MaxBudgets
          /\ memory' = mem
    /\ last' = [op |-> "save_budget", user |-> user_id,
                category |-> category, amount |-> amount,
                period |-> period, currency |-> currency,
                fault |-> "none", raised |-> NoExc]
    /\ UNCHANGED <<rows, today, now, mappings, sessions>>

GetBudget(user_id, category, period, limit) ==
    /\ last' = [op |-> "get_budget", user |-> user_id,
                category |-> category, period |-> period, limit |-> limit,
                fault |-> "none", raised |-> NoExc,
                ret |-> get_budget(memory, today, user_id, category, period,
                                   limit)]
    /\ UNCHANGED <<rows, today, now, mappings, memory, sessions>>

\* store.search(namespace, filter=filter, limit=limit), asked of the store
Search(namespace, filter, limit) ==
    /\ last' = [op |-> "search", user |-> namespace[1],
                namespace |-> namespace, filter |-> filter, limit |-> limit,
                fault |-> "none", raised |-> NoExc,
                ret |-> search(memory, namespace, filter, limit)]
    /\ UNCHANGED <<rows, today, now, mappings, memory, sessions>>

\* The store before the budgets: three notes of u1, and the profile of u1
\* with a currency
Stored ==
    LET notes == <<"u1", "notes">>
        m1 == put(NoDocuments, FirstTime, notes, <<"n", "1">>, [a |-> 1, b |-> 2])
        m2 == put(m1, FirstTime, notes, <<"n", "2">>, [a |-> 10])
        m3 == put(m2, FirstTime, notes, <<"n", "3">>, [b |-> 2])
    IN put(m3, FirstTime, <<"u1", "prefs">>, ProfileKey, [currency |-> "USD"])

\* category, amount, period and currency of the calls of save_budget
BudgetArgs(category, amount, period, currency) == [category |-> category, amount |-> amount, period |-> period, currency |-> currency]

BudgetCategories == {<<"T", "r", "a", "n", "s", "p", "o", "r", "t">>, <<"t", "r", "a", "n", "s", "p", "o", "r", "t">>, <<"C", "a", "f", "é", " ", " ", "B", "a", "r">>}

BudgetPeriods == {NoText, <<"2", "0", "2", "4", "-", "1">>, <<"2", "0", "2", "4", "-", "1", "0">>}

BudgetSaves ==
    {BudgetArgs(c, 300, p, NoneStr) : c \in BudgetCategories,
                                      p \in BudgetPeriods}
    \cup {BudgetArgs(<<"T", "r", "a", "n", "s", "p", "o", "r", "t">>, 450, p, NoneStr) : p \in BudgetPeriods}
    \cup {BudgetArgs(<<"T", "r", "a", "n", "s", "p", "o", "r", "t">>, 300, <<"2", "0", "2", "4", "-", "1">>, "EUR")}

\* category, period and limit of the calls of get_budget
BudgetGets ==
    {<<c, p, 20>> : c \in BudgetCategories,
                    p \in BudgetPeriods \cup {<<"2", "0", "2", "4", "-", "0", "3">>}}
    \cup {<<NoText, p, n>> : p \in BudgetPeriods \cup {<<"2", "0", "2", "4", "-", "0", "3">>},
                              n \in {1, 20}}

\* filter and limit of the calls of search
Filters ==
    {<<f, n>> : f \in {<<>>, [a |-> 1], [a |-> 10], [b |-> 2],
                       [a |-> 1, b |-> 2], [a |-> 10, b |-> 2]},
                n \in {1, 50}}

InitMemory ==
    /\ rows = {}
    /\ today = FirstDay
    /\ last = NoCall
    /\ now = LaterTime
    /\ mappings = Seeded
    /\ memory = Stored
    /\ sessions = NoSessions

NextMemory ==
    \/ \E u \in Users, b \in BudgetSaves :
            SaveBudget(u, b.category, b.amount, b.period, b.currency)
    \/ \E u \in Users, g \in BudgetGets : GetBudget(u, g[1], g[2], g[3])
    \/ \E q \in Filters : Search(<<"u1", "notes">>, q[1], q[2])

SpecMemory == InitMemory /\ [][NextMemory]_vars

----------------------------------------------------------------------------
(* Callers on several threads. sessions[t] holds the call thread t is in
   (pc, op and its arguments, the row it loaded) and the Session registered
   under t: txn says that its connection has a write transaction open, and
   pending is the table as that transaction sees it. rows is the table as
   committed on file. *)

Threads == {"t1", "t2"}

\* A session factory that hands the same Session to every thread
SessionLocal_shared(thread) == "t1"

\* self.SessionLocal(): scoped_session keeps one Session per thread
SessionLocal(thread) == thread

\* A thread in no call, its Session closed
Idle == [pc |-> "idle", op |-> "none", user |-> NoneStr, id |-> 0, kwargs |-> <<>>, loaded |-> <<>>, txn |-> FALSE, pending |-> {}]

\* The session of the thread's call: its key in the registry, the table its
\* statements see, and whether the connection of another Session holds the
\* write lock of the file (a statement that writes then fails with
\* "database is locked")
connection(ss, db, thread) ==
    LET key == SessionLocal(thread)
    IN [key |-> key,
        view |-> IF ss[key].txn THEN ss[key].pending ELSE db,
        locked |-> \E k \in DOMAIN ss \ {key} : ss[k].txn]

\* A close that leaves the transaction of the session open
closed_keeps_transaction(ss, thread) ==
    [ss EXCEPT ![thread] = [Idle EXCEPT !.txn = ss[thread].txn,
                                        !.pending = ss[thread].pending]]

\* The call of the thread is over and its session, committed or rolled
\* back, is closed
closed(ss, thread) ==
    LET key == SessionLocal(thread)
        released == [ss EXCEPT ![key].txn = FALSE, ![key].pending = {}]
    IN [released EXCEPT ![thread] = [Idle EXCEPT !.txn = released[thread].txn,
                                                 !.pending = released[thread].pending]]

\* add_transaction up to session.flush(): the INSERT opens the write
\* transaction of the connection and gives the row its id. A flush that
\* finds the file locked, or another exception in the body, ends the call.
BeginAdd(thread, user_id, amount, category, fault) ==
    /\ sessions[thread].pc = "idle"
    /\ LET c == connection(sessions, rows, thread)
           body == add_transaction_body(c.view, today, now, user_id, amount,
                                        "expense", category, NoText, NoDate,
                                        NoneStr, fault)
       IN /\ Cardinality(c.view) < MaxRows
          /\ IF c.locked \/ body.exc # NoExc
             THEN /\ sessions' = closed(sessions, thread)
                  /\ last' = [op |-> "add_transaction", thread |-> thread,
                              user |-> user_id,
                              fault |-> IF c.locked THEN "locked" ELSE fault,
                              raised |-> IF c.locked THEN "SQLAlchemyError"
                                         ELSE body.exc,
                              ret |-> 0]
             ELSE /\ sessions' =
                        [sessions EXCEPT ![thread].pc = "flushed",
                                         ![thread].op = "add_transaction",
                                         ![thread].user = user_id,
                                         ![thread].id = body.ret,
                                         ![c.key].txn = TRUE,
                                         ![c.key].pending = body.pending]
                  /\ last' = last
    /\ UNCHANGED <<rows, today, now, mappings, memory>>

\* add_transaction from the end of the with block: commit, or rollback when
\* the commit fails, and close
EndAdd(thread, fault) ==
    /\ sessions[thread].pc = "flushed"
    /\ LET c == connection(sessions, rows, thread)
           body == [pending |-> c.view, ret |-> sessions[thread].id,
                    exc |-> NoExc]
           out == get_session(rows, body, CommitExc(fault))
       IN /\ rows' = out.db
          /\ last' = [op |-> "add_transaction", thread |-> thread,
                      user |-> sessions[thread].user, fault |-> fault,
                      raised |-> out.raised, ret |-> body.ret]
    /\ sessions' = closed(sessions, thread)
    /\ UNCHANGED <<today, now, mappings, memory>>

\* update_transaction up to the return: the SELECT loads the row, setattr
\* changes the loaded object only
BeginUpdate(thread, user_id, transaction_id, kwargs) ==
    /\ sessions[thread].pc = "idle"
    /\ LET c == connection(sessions, rows, thread)
           found == Matching(c.view, user_id, transaction_id)
       IN sessions' =
            [sessions EXCEPT ![thread].pc = "loaded",
                             ![thread].op = "update_transaction",
                             ![thread].user = user_id,
                             ![thread].id = transaction_id,
                             ![thread].kwargs = kwargs,
                             ![thread].loaded =
                                IF found = {} THEN <<>>
                                ELSE <<CHOOSE r \in found : TRUE>>]
    /\ UNCHANGED <<rows, today, last, now, mappings, memory>>

\* update_transaction from the end of the with block: session.commit()
\* flushes an UPDATE that sets the columns whose value differs from the
\* loaded one (and updated_at), WHERE id is the loaded id, and commits. The
\* UPDATE fails when another connection holds the write lock or when it
\* finds no row (StaleDataError); with no column to set there is no UPDATE.
EndUpdate(thread, fault) ==
    /\ sessions[thread].pc = "loaded"
    /\ LET me == sessions[thread]
           c == connection(sessions, rows, thread)
           transaction == me.loaded[1]
           changed == onupdate(transaction, setattrs(transaction, me.kwargs),
                               now)
           dirty == me.loaded # <<>> /\ changed # transaction
           current == {r \in c.view : r.id = transaction.id}
           updated == {[f \in DOMAIN r |->
                          IF changed[f] # transaction[f] THEN changed[f]
                          ELSE r[f]] : r \in current}
           exc == IF dirty /\ (c.locked \/ current = {})
                  THEN "SQLAlchemyError" ELSE CommitExc(fault)
           body == [pending |-> IF dirty THEN (c.view \ current) \cup updated
                                ELSE c.view,
                    ret |-> me.loaded # <<>>, exc |-> NoExc]
           out == get_session(rows, body, exc)
       IN /\ rows' = out.db
          /\ last' = [op |-> "update_transaction", thread |-> thread,
                      user |-> me.user, id |-> me.id, kwargs |-> me.kwargs,
                      loaded |-> me.loaded, fault |-> fault,
                      raised |-> out.raised, ret |-> body.ret]
    /\ sessions' = closed(sessions, thread)
    /\ UNCHANGED <<today, now, mappings, memory>>

\* list_transactions(user_id) of a thread, a unit of work of one SELECT
ListBy(thread, user_id) ==
    /\ sessions[thread].pc = "idle"
    /\ LET c == connection(sessions, rows, thread)
       IN \E res \in list_transactions_results(c.view, today, user_id,
                                               DefaultLimit, NoneStr,
                                               NoneStr, NoneStr) :
            last' = [op |-> "list_transactions", thread |-> thread,
                     user |-> user_id, fault |-> "none",
                     raised |-> NoExc, ret |-> res]
    /\ sessions' = closed(sessions, thread)
    /\ UNCHANGED <<rows, today, now, mappings, memory>>

\* One transaction of u1 is on file when the threads start
InitThreads ==
    /\ rows = Filled({}, FirstDay,
                     <<AddArgs("u1", 45, "expense", "Outros", NoDate)>>)
    /\ today = FirstDay
    /\ last = NoCall
    /\ now = LaterTime
    /\ mappings = Seeded
    /\ memory = NoDocuments
    /\ sessions = [t \in Threads |-> Idle]

NextThreads ==
    \E t \in Threads :
        \/ \E f \in {"none", "error"} : BeginAdd(t, "u1", 30, "Lazer", f)
        \/ \E f \in {"none", "commit"} : EndAdd(t, f)
        \/ \E kw \in {("amount" :> KwVal(60)),
                       ("amount" :> KwVal(50)) @@ ("category" :> KwVal("Outros")),
                       ("amount" :> KwVal(45)) @@ ("category" :> KwVal("Lazer"))} :
                BeginUpdate(t, "u1", 1, kw)
        \/ \E f \in {"none", "commit"} : EndUpdate(t, f)
        \/ ListBy(t, "u1")

SpecThreads == InitThreads /\ [][NextThreads]_vars

----------------------------------------------------------------------------
(* Two constructions of the store on one ledger file, and two calls of
   set_preference on one memory store. sessions[t] holds, for caller t,
   the construction it is in (pc, the index k of the keyword its loop is
   at, the mappings it added to its session, what the construction raised)
   and the set_preference it is in (pref, its arguments, the profile it
   loaded). *)

\* One turn of the loop of _init_category_mappings: the SELECT of the
\* keyword reads the table as committed on file, and the mapping is added
\* to the session when no row was found
CheckKeyword(thread) ==
    LET ss == sessions[thread]
        e == CATEGORY_KEYWORDS[ss.k]
    IN /\ ss.pc = "seeding"
       /\ ss.k <= Len(CATEGORY_KEYWORDS)
       /\ sessions' = [sessions EXCEPT ![thread] =
                [ss EXCEPT !.k = ss.k + 1,
                           !.pending = IF existing(mappings, e.keyword) = {}
                                       THEN Append(ss.pending, e)
                                       ELSE ss.pending]]
       /\ UNCHANGED <<rows, today, last, now, mappings, memory>>

\* The end of the with block: commit flushes the INSERTs of the added
\* mappings, in the order they were added and each under the next id, into
\* the table as it is now; a keyword that is there already violates the
\* unique constraint, get_session rolls back and raises, and __init__ fails
CommitMappings(thread) ==
    LET ss == sessions[thread]
        top == MaxOf(Ids(mappings))
        inserted == {CategoryMapping(top + i, ss.pending[i].keyword,
                                     ss.pending[i].category,
                                     ss.pending[i].type) :
                        i \in DOMAIN ss.pending}
        body == [pending |-> mappings \cup inserted,
                 ret |-> NoRet, exc |-> NoExc]
        out == get_session(mappings, body, MappingsFlushExc(body.pending))
    IN /\ ss.pc = "seeding"
       /\ ss.k > Len(CATEGORY_KEYWORDS)
       /\ mappings' = out.db
       /\ sessions' = [sessions EXCEPT ![thread] =
                [ss EXCEPT !.pc = IF out.raised = NoExc
                                  THEN "constructed" ELSE "failed",
                           !.raised = out.raised]]
       /\ UNCHANGED <<rows, today, last, now, memory>>

\* set_preference up to its read: current = store.get(ns, "profile");
\* profile = (current["value"] if current else {}) or {}
GetProfile(thread, user_id, key, value) ==
    LET ss == sessions[thread]
        current == get(memory, <<user_id, "prefs">>, ProfileKey)
    IN /\ ss.pref = "idle"
       /\ sessions' = [sessions EXCEPT ![thread] =
                [ss EXCEPT !.pref = "loaded", !.user = user_id,
                           !.key = key, !.value = value,
                           !.profile = IF current # <<>>
                                       THEN current[1].value ELSE <<>>]]
       /\ UNCHANGED <<rows, today, last, now, mappings, memory>>

\* set_preference from its write: profile[key] = value;
\* store.put(ns, "profile", profile)
PutProfile(thread) ==
    LET ss == sessions[thread]
        profile == (ss.key :> ss.value) @@ ss.profile
    IN /\ ss.pref = "loaded"
       /\ memory' = put(memory, now, <<ss.user, "prefs">>, ProfileKey,
                        profile)
       /\ sessions' = [sessions EXCEPT ![thread] =
                [ss EXCEPT !.pref = "saved"]]
       /\ UNCHANGED <<rows, today, last, now, mappings>>

\* A new ledger file, or one a store was constructed on before; the memory
\* store holds the profile of u1
InitRaces ==
    /\ rows = {}
    /\ today = FirstDay
    /\ last = NoCall
    /\ now = LaterTime
    /\ mappings \in {{}, Seeded}
    /\ memory = Stored
    /\ sessions = [t \in Threads |->
                     [pc |-> "seeding", k |-> 1, pending |-> <<>>,
                      raised |-> NoExc, pref |-> "idle", user |-> NoneStr,
                      key |-> NoneStr, value |-> NoneStr,
                      profile |-> <<>>]]

NextRaces ==
    \/ \E t \in Threads : CheckKeyword(t)
    \/ \E t \in Threads : CommitMappings(t)
    \/ \E t \in Threads, u \in Users,
          kv \in {<<"timezone", "UTC">>, <<"language", "pt">>} :
            GetProfile(t, u, kv[1], kv[2])
    \/ \E t \in Threads : PutProfile(t)

SpecRaces == InitRaces /\ [][NextRaces]_vars

----------------------------------------------------------------------------
(* Properties of the ledger's writes, checked under Spec *)

Writes == {"add_transaction", "update_transaction", "delete_transaction",
           "clear_user_transactions"}

OwnedBy(db, user_id) == {r \in db : r.user_id = user_id}

NotOwnedBy(db, user_id) == db \ OwnedBy(db, user_id)

\* C1: after any sequence of add, update, delete and clear with amounts of
\* either sign, every stored transaction has amount >= 0.
C1_StoredAmountNonNegative == \A r \in rows : r.amount >= 0

\* C2: every unit of work is atomic. A unit of work that fails (in its body
\* or at commit) re-raises the error and leaves the table as it was before
\* the call; one that completes leaves its changes in the table: the added
\* row under the returned id, the deleted row gone, the updated row in the
\* place of the old one, the cleared user's rows gone.
C2_UnitOfWorkAtomic ==
    [][/\ last'.fault # "none" => last'.raised # NoExc
       /\ last'.raised # NoExc => rows' = rows
       /\ last'.raised = NoExc =>
            /\ last'.op = "add_transaction" =>
                  /\ last'.ret \notin Ids(rows)
                  /\ \E r \in rows' : r.id = last'.ret /\ rows' = rows \cup {r}
            /\ last'.op = "delete_transaction" /\ last'.ret =>
                  \E r \in rows : /\ r.id = last'.id
                                   /\ r.user_id = last'.user
                                   /\ rows' = rows \ {r}
            /\ last'.op = "update_transaction" /\ last'.ret =>
                  \E r \in rows : /\ r.id = last'.id
                                   /\ r.user_id = last'.user
                                   /\ rows \ {r} \subseteq rows'
                                   /\ Cardinality(rows') = Cardinality(rows)
            /\ last'.op = "clear_user_transactions" =>
                  rows' = NotOwnedBy(rows, last'.user)
      ]_vars

\* C2 happens: a delete found its row, failed, and the row is still there
C2_Witness ==
    /\ last.op = "delete_transaction"
    /\ last.raised # NoExc
    /\ last.ret
    /\ \E r \in rows : r.id = last.id /\ r.user_id = last.user

\* C3: update_transaction and delete_transaction called with an id no row
\* has leave every row unchanged and, unless the storage fails, return
\* false without raising.
C3_UnknownIdReturnsFalse ==
    [][(/\ last'.op \in {"update_transaction", "delete_transaction"}
        /\ last'.id \notin Ids(rows))
       => /\ rows' = rows
          /\ last'.fault = "none" => (last'.raised = NoExc /\ last'.ret = FALSE)
      ]_vars

\* C3 happens: an update of an id that a non-empty table does not hold
C3_Witness ==
    /\ last.op = "update_transaction"
    /\ last.fault = "none"
    /\ rows # {}
    /\ last.id \notin Ids(rows)
    /\ last.ret = FALSE

\* C4: clear_user_transactions(u) deletes exactly the rows u owns, leaves the
\* rows of every other user as they are, and returns the number of rows it
\* removed.
C4_ClearRemovesExactlyOwnRows ==
    [][last'.op = "clear_user_transactions" =>
          /\ NotOwnedBy(rows', last'.user) = NotOwnedBy(rows, last'.user)
          /\ last'.raised = NoExc =>
                /\ OwnedBy(rows', last'.user) = {}
                /\ last'.ret = Cardinality(rows) - Cardinality(rows')
                /\ last'.ret = Cardinality(OwnedBy(rows, last'.user))
      ]_vars

\* C4 happens: a clear removed rows and another user's row is left
C4_Witness ==
    /\ last.op = "clear_user_transactions"
    /\ last.raised = NoExc
    /\ last.ret > 0
    /\ rows # {}

\* C5: update_transaction(u, id) and delete_transaction(u, id) on a row that
\* another user owns return false (unless the storage fails) and leave the
\* table unchanged; no write of u changes or removes a row of another user.
C5_WritesStayWithinOwner ==
    [][/\ (/\ last'.op \in {"update_transaction", "delete_transaction"}
           /\ \E r \in rows : r.id = last'.id /\ r.user_id # last'.user)
          => /\ rows' = rows
             /\ last'.fault = "none" =>
                   (last'.raised = NoExc /\ last'.ret = FALSE)
       /\ last'.op \in Writes =>
             NotOwnedBy(rows, last'.user) \subseteq rows'
      ]_vars

\* C5 happens: a delete aimed at another user's row, which is still there
C5_Witness ==
    /\ last.op = "delete_transaction"
    /\ last.fault = "none"
    /\ last.ret = FALSE
    /\ \E r \in rows : r.id = last.id /\ r.user_id # last.user

----------------------------------------------------------------------------
(* Properties of the queries, checked under SpecQuery *)

\* The day number of a date in the proleptic Gregorian calendar
DaysBeforeMonth == <<0, 31, 59, 90, 120, 151, 181, 212, 243, 273, 304, 334>>

Ordinal(dt) ==
    LET y == dt.y - 1
    IN 365 * y + (y \div 4) - (y \div 100) + (y \div 400)
       + DaysBeforeMonth[dt.m] + (IF dt.m > 2 /\ IsLeap(dt.y) THEN 1 ELSE 0)
       + dt.d

\* Date dt lies in the period as seen on day td: today is the current day,
\* week the current day minus 7 days, month the current month, year the
\* current year, all everything from the year 2000 on
InPeriod(dt, period, td) ==
    IF period = "today" THEN Ordinal(dt) >= Ordinal(td)
    ELSE IF period = "week" THEN Ordinal(dt) >= Ordinal(td) - 7
    ELSE IF period = "month"
         THEN dt.y > td.y \/ (dt.y = td.y /\ dt.m >= td.m)
    ELSE IF period = "year" THEN dt.y >= td.y
    ELSE dt.y >= 2000

\* An ISO date string is not before another
IsoGE(a, b) ==
    \/ a[1] > b[1]
    \/ a[1] = b[1] /\ a[2] > b[2]
    \/ a[1] = b[1] /\ a[2] = b[2] /\ a[3] >= b[3]

RECURSIVE TotalOver(_, _)
\* The total of the amounts of rows S, amount by amount over amounts A
TotalOver(A, S) ==
    IF A = {} THEN 0
    ELSE LET a == CHOOSE a \in A : TRUE
         IN a * Cardinality({r \in S : r.amount = a}) + TotalOver(A \ {a}, S)

Total(S) == TotalOver({r.amount : r \in S}, S)

\* Rows of another user that a second ledger may hold
Strangers(user_id) ==
    {Transaction(101, v, 45, "income", "Outros", <<"None">>, today, NoneStr,
                 FirstTime, FirstTime) :
        v \in Users \ {user_id}}
    \cup {Transaction(102, v, 5000, "expense", "Alimentação", <<"None">>,
                      Date(FloorYear, 1, 1), NoneStr, FirstTime, FirstTime) :
        v \in Users \ {user_id}}

\* C6: get_balance, list_transactions and get_category_summary of user u
\* depend only on u's rows: on every ledger that holds the same rows of u,
\* whatever rows of other users it holds, the query gives the same result.
C6_QueriesSeeOnlyOwnRows ==
    \A X \in SUBSET Strangers(last.user) :
        LET other == OwnedBy(rows, last.user) \cup X
        IN /\ last.op = "get_balance" =>
                last.ret = get_balance_body(other, today, last.user,
                                            last.period, last.fault).ret
           /\ last.op = "get_category_summary" =>
                last.ret = get_category_summary_body(other, today, last.user,
                                                     last.period, last.fault).ret
           /\ (last.op = "list_transactions" /\ last.raised = NoExc) =>
                /\ last.ret \in list_transactions_results(
                                    other, today, last.user, last.limit,
                                    last.type, last.period, last.category)
                /\ list_transactions_results(
                        other, today, last.user, last.limit,
                        last.type, last.period, last.category)
                   = list_transactions_results(
                        rows, today, last.user, last.limit,
                        last.type, last.period, last.category)

\* C6 happens: a balance with income, asked of a ledger in which another
\* user has an income row of the same period
C6_Witness ==
    /\ last.op = "get_balance"
    /\ last.ret.income > 0
    /\ \E r \in rows : /\ r.user_id # last.user
                        /\ r.type = "income"
                        /\ InPeriod(r.date, last.period, today)

\* C7: get_balance (periods today, week, month, year, all) and
\* get_category_summary (periods today, week, month, year) count a
\* transaction of the user if and only if its date is on or after the start
\* of the period: taking the row away changes the result exactly then. A
\* transaction dated on the start date is counted.
C7_PeriodCutoff ==
    /\ (last.op = "get_balance" /\ last.raised = NoExc) =>
          \A r \in OwnedBy(rows, last.user) :
              InPeriod(r.date, last.period, today)
              <=> get_balance_body(rows \ {r}, today, last.user, last.period,
                                   last.fault).ret # last.ret
    /\ (last.op = "get_category_summary" /\ last.raised = NoExc) =>
          \A r \in OwnedBy(rows, last.user) :
              InPeriod(r.date, last.period, today)
              <=> get_category_summary_body(rows \ {r}, today, last.user,
                                            last.period, last.fault).ret
                  # last.ret

\* C7 happens: a summary of the week in which the user has one row dated on
\* the first day of the week and one dated the day before
C7_Witness ==
    /\ last.op = "get_category_summary"
    /\ last.period = "week"
    /\ \E r, q \in OwnedBy(rows, last.user) :
          /\ Ordinal(r.date) = Ordinal(today) - 7
          /\ Ordinal(q.date) = Ordinal(today) - 8
          /\ r.category \in DOMAIN last.ret.income \cup DOMAIN last.ret.expenses

\* C8: get_balance returns as income the total of the user's income rows on
\* or after the start date, as expenses the total of the expense rows, each
\* 0 when there are none, and as balance income - expenses.
C8_BalanceSums ==
    (last.op = "get_balance" /\ last.raised = NoExc) =>
        LET Of(type) == {r \in rows : /\ r.user_id = last.user
                                      /\ r.type = type
                                      /\ IsoGE(isoformat(r.date),
                                               last.ret.start_date)}
        IN /\ last.ret.income = Total(Of("income"))
           /\ last.ret.expenses = Total(Of("expense"))
           /\ Of("income") = {} => last.ret.income = 0
           /\ Of("expense") = {} => last.ret.expenses = 0
           /\ last.ret.balance = last.ret.income - last.ret.expenses

\* C8 happens: income 5000 and expense 45 in the current month
C8_Witness ==
    /\ last.op = "get_balance"
    /\ last.period = "month"
    /\ last.ret.income = 5000
    /\ last.ret.expenses = 45
    /\ last.ret.balance = 4955

RECURSIVE SumCounts(_, _)
\* The sum of the counts of section f over the categories C
SumCounts(f, C) ==
    IF C = {} THEN 0
    ELSE LET c == CHOOSE c \in C : TRUE
         IN f[c].count + SumCounts(f, C \ {c})

\* C10: get_category_summary groups the user's rows on or after the start
\* date by (category, kind): section 'expenses' has exactly the categories
\* with expense rows and section 'income' those with income rows, each with
\* total the sum of the group's amounts, count the number of its rows and
\* average total/count; no row is counted in two groups.
C10_SummaryGroups ==
    (last.op = "get_category_summary" /\ last.raised = NoExc) =>
        LET inside == {r \in OwnedBy(rows, last.user) :
                          IsoGE(isoformat(r.date), last.ret.start_date)}
            Group(c, t) == {r \in inside : r.category = c /\ r.type = t}
            Right(f, t) ==
                /\ DOMAIN f = {r.category : r \in {x \in inside : x.type = t}}
                /\ \A c \in DOMAIN f :
                      /\ f[c].total = Total(Group(c, t))
                      /\ f[c].count = Cardinality(Group(c, t))
                      /\ f[c].average.over = f[c].count
                      /\ f[c].average.rest \in 0 .. (f[c].count - 1)
                      /\ f[c].average.whole * f[c].count + f[c].average.rest
                         = f[c].total
        IN /\ Right(last.ret.expenses, "expense")
           /\ Right(last.ret.income, "income")
           /\ SumCounts(last.ret.expenses, DOMAIN last.ret.expenses)
              + SumCounts(last.ret.income, DOMAIN last.ret.income)
              = Cardinality(inside)

\* C10 happens: a summary whose only group holds two expense rows of
\* different amounts
C10_Witness ==
    /\ last.op = "get_category_summary"
    /\ \E c \in DOMAIN last.ret.expenses :
          /\ last.ret.expenses[c].count = 2
          /\ last.ret.expenses[c].total = 5045
    /\ last.ret.income = <<>>

----------------------------------------------------------------------------
(* Properties of the inference, checked under SpecInfer *)

\* Text k occurs in text t: t is a text, then k, then a text
Occurs(k, t) ==
    \E before \in 0 .. Len(t) :
        /\ before + Len(k) <= Len(t)
        /\ \A j \in 1 .. Len(k) : t[before + j] = k[j]

\* Text t with its capital letters made small
LowerCased(t) ==
    [i \in 1 .. Len(t) |->
        IF \E c \in DOMAIN LowerOf : c = t[i] THEN LowerOf[t[i]] ELSE t[i]]

\* The places of the seed table whose keyword occurs in the lower-cased text
Hits(t) ==
    {i \in 1 .. Len(CATEGORY_KEYWORDS) :
        Occurs(Spelling[CATEGORY_KEYWORDS[i].keyword], LowerCased(t))}

PairOf(e) == <<e.category, e.type>>

AlmocoSentence == join(Space, <<<<"G", "a", "s", "t", "e", "i">>, <<"4", "5">>, <<"n", "o">>,
                                <<"a", "l", "m", "o", "ç", "o">>>>)

SalarioSentence == join(Space, <<<<"R", "e", "c", "e", "b", "i">>, <<"5", "0", "0", "0">>,
                                 <<"d", "e">>, <<"s", "a", "l", "á", "r", "i", "o">>>>)

UberAlmoco == join(Space, <<<<"U", "b", "e", "r">>, <<"a", "l", "m", "o", "ç", "o">>>>)

\* C11: infer_category returns ('Outros', 'expense') when the description is
\* None or empty or when no keyword of the table occurs in the lower-cased
\* description, and otherwise the (category, type) of a keyword of the table
\* that occurs in the lower-cased description; 'Gastei 45 no almoço' gives
\* ('Alimentação', 'expense') and 'Recebi 5000 de salário' gives
\* ('Salário', 'income').
C11_InferReturnsKeywordOrDefault ==
    (last.op = "infer_category" /\ last.raised = NoExc) =>
        LET d == last.description
            found == IF NotText(d) THEN {}
                     ELSE {m \in mappings :
                              Occurs(Spelling[m.keyword], LowerCased(d))}
        IN /\ found = {} => last.ret = <<"Outros", "expense">>
           /\ found # {} => \E m \in found : last.ret = PairOf(m)
           /\ d = AlmocoSentence => last.ret = <<"Alimentação", "expense">>
           /\ d = SalarioSentence => last.ret = <<"Salário", "income">>
           /\ d = <<>> => last.ret = <<"Outros", "expense">>

\* C11 happens: a description in capitals whose keyword gives an income
C11_Witness ==
    /\ last.op = "infer_category"
    /\ last.raised = NoExc
    /\ last.description = <<"S", "A", "L", "Á", "R", "I", "O">>
    /\ last.ret = <<"Salário", "income">>

\* C12: the table holds the keywords in the order of the seed table, and
\* when several keywords occur in a description infer_category returns the
\* pair of the one that comes first in that order, wherever the keywords
\* stand in the description.
C12_FirstKeywordInSeedOrderWins ==
    /\ \A m \in mappings : /\ m.id \in 1 .. Len(CATEGORY_KEYWORDS)
                            /\ CATEGORY_KEYWORDS[m.id].keyword = m.keyword
                            /\ PairOf(CATEGORY_KEYWORDS[m.id]) = PairOf(m)
    /\ (/\ last.op = "infer_category"
        /\ last.raised = NoExc
        /\ ~NotText(last.description)) =>
          \A i \in Hits(last.description) :
              (\A j \in Hits(last.description) : i <= j)
              => last.ret = PairOf(CATEGORY_KEYWORDS[i])

\* C12 happens: 'Uber almoço' holds the tenth keyword before the first one
\* and gets the first one's category
C12_Witness ==
    /\ last.op = "infer_category"
    /\ last.raised = NoExc
    /\ last.description = UberAlmoco
    /\ Cardinality(Hits(last.description)) = 2
    /\ last.ret = <<"Alimentação", "expense">>

----------------------------------------------------------------------------
(* Properties of the seeding, checked under SpecSeed *)

\* C13: seeding is idempotent. An initialization keeps every mapping the
\* table holds (none is overwritten or removed), keeps each keyword on one
\* row, and adds exactly the default mappings whose keyword the table
\* lacks; after an initialization that completed, any further
\* initialization leaves the same rows, and fails only if the storage does.
C13_SeedingIdempotent ==
    [][last'.op = "__init__" =>
          /\ mappings \subseteq mappings'
          /\ \A m, n \in mappings' : m.keyword = n.keyword => m = n
          /\ last'.fault = "none" => last'.raised = NoExc
          /\ last'.raised # NoExc => mappings' = mappings
          /\ last'.raised = NoExc =>
                /\ \A i \in 1 .. Len(CATEGORY_KEYWORDS) :
                      \E m \in mappings' :
                          m.keyword = CATEGORY_KEYWORDS[i].keyword
                /\ \A m \in mappings' \ mappings :
                      /\ \A n \in mappings : n.keyword # m.keyword
                      /\ \E i \in 1 .. Len(CATEGORY_KEYWORDS) :
                            /\ CATEGORY_KEYWORDS[i].keyword = m.keyword
                            /\ PairOf(CATEGORY_KEYWORDS[i]) = PairOf(m)
          /\ (last.op = "__init__" /\ last.raised = NoExc) =>
                mappings' = mappings
      ]_vars

\* C13 happens: an initialization of a table that an earlier one had
\* completed, which still maps 'almoço' as the file did
C13_Witness ==
    /\ last.op = "__init__"
    /\ last.raised = NoExc
    /\ last.had = Cardinality(mappings)
    /\ CategoryMapping(1, "almoço", "Restaurantes", "expense") \in mappings
    /\ Cardinality(mappings) = Len(CATEGORY_KEYWORDS)

----------------------------------------------------------------------------
(* Properties of the tools, checked under SpecTools *)

\* C14: when the add tool registers a transaction, a category the caller
\* passed is the stored category; with no category and a description, the
\* stored category is the inferred one and the stored type is the caller's
\* type when one was passed and the inferred type otherwise; with no
\* category and no description the stored category is 'Outros'.
C14_AddToolCategoryAndType ==
    [][(/\ last'.op = "tool_add_transaction"
        /\ last'.ret.status = "registered")
       => \E r \in rows' \ rows :
            LET d == last'.description
                described == d # NoText /\ d # <<>>
                first == CHOOSE i \in Hits(d) : \A j \in Hits(d) : i <= j
                inferred == IF Hits(d) = {} THEN <<"Outros", "expense">>
                            ELSE PairOf(CATEGORY_KEYWORDS[first])
            IN /\ r.id = last'.ret.id
               /\ last'.category # NoneStr => r.category = last'.category
               /\ (last'.category = NoneStr /\ described) =>
                     /\ r.category = inferred[1]
                     /\ last'.type # NoneStr => r.type = last'.type
                     /\ last'.type = NoneStr => r.type = inferred[2]
               /\ (last'.category = NoneStr /\ ~described) =>
                     r.category = "Outros"
      ]_vars

\* C14 happens: no category, type 'expense' and description 'SALÁRIO' are
\* stored as category 'Salário' with type 'expense'
C14_Witness ==
    /\ last.op = "tool_add_transaction"
    /\ last.ret.status = "registered"
    /\ last.category = NoneStr
    /\ last.type = "expense"
    /\ last.description = <<"S", "A", "L", "Á", "R", "I", "O">>
    /\ \E r \in rows : /\ r.id = last.ret.id
                        /\ r.category = "Salário"
                        /\ r.type = "expense"

\* C15: the add tool and the update tool, given a date string of neither
\* accepted format, answer with an error and leave the ledger as it was.
C15_MalformedDateRejected ==
    [][(/\ last'.op \in {"tool_add_transaction", "tool_update_transaction"}
        /\ last'.date_str \in {<<"0", "3", "-", "0", "1", "-", "2", "0", "2", "4">>, <<"2", "0", "2", "4", "-", "0", "2", "-", "3", "0">>, <<"a", "m", "a", "n", "h", "ã">>})
       => /\ rows' = rows
          /\ last'.ret.status = "error"
      ]_vars

----------------------------------------------------------------------------
(* Properties of one update, checked under SpecUpdate *)

\* The keyword arguments name field f with a value that is not None
Passed(kwargs, f) == f \in DOMAIN kwargs /\ ~kwargs[f].null

\* C16 as stated: update_transaction on a row of the user returns true and
\* leaves in its place a row that has the passed value in every field passed
\* with a value, and the old value in every other field; no other row
\* changes.
C16_UpdateOverwritesExactlyPassed ==
    [][(/\ last'.op = "update_transaction"
        /\ last'.fault = "none")
       => \A r \in rows :
            (r.id = last'.id /\ r.user_id = last'.user) =>
                /\ last'.raised = NoExc
                /\ last'.ret = TRUE
                /\ \E q \in rows' :
                      /\ rows' = (rows \ {r}) \cup {q}
                      /\ \A f \in DOMAIN r :
                            q[f] = IF Passed(last'.kwargs, f)
                                   THEN last'.kwargs[f].val
                                   ELSE r[f]
      ]_vars

\* C16 as amended: update_transaction on a row of the user either raises
\* and changes nothing, or returns true and leaves in its place a row that
\* has the passed value in every field passed with a value, the time of the
\* update in updated_at when updated_at was not passed with a new value and
\* another field changed, and the old value in every other field; no other
\* row changes. It raises only when the storage fails or the id passed is
\* the id of another row.
C16_UpdateOverwritesPassedAndStamp ==
    [][last'.op = "update_transaction"
       => \A r \in rows :
            (r.id = last'.id /\ r.user_id = last'.user) =>
                /\ last'.raised # NoExc => rows' = rows
                /\ (last'.raised # NoExc /\ last'.fault = "none") =>
                      /\ Passed(last'.kwargs, "id")
                      /\ \E o \in rows \ {r} : o.id = last'.kwargs["id"].val
                /\ last'.raised = NoExc =>
                      /\ last'.ret = TRUE
                      /\ \E q \in rows' :
                            /\ rows' = (rows \ {r}) \cup {q}
                            /\ \A f \in DOMAIN r \ {"updated_at"} :
                                  q[f] = IF Passed(last'.kwargs, f)
                                         THEN last'.kwargs[f].val
                                         ELSE r[f]
                            /\ q.updated_at =
                                  IF /\ Passed(last'.kwargs, "updated_at")
                                     /\ last'.kwargs["updated_at"].val
                                        # r.updated_at
                                  THEN last'.kwargs["updated_at"].val
                                  ELSE IF \E f \in DOMAIN r : q[f] # r[f]
                                       THEN now
                                       ELSE r.updated_at
      ]_vars

\* C16 happens: amount=50, category='Lazer' on a row of another amount and
\* category, in a ledger of two rows: the row has both and the time of the
\* update, the other row is as it was
C16_Witness ==
    /\ last.op = "update_transaction"
    /\ last.raised = NoExc
    /\ last.ret = TRUE
    /\ DOMAIN last.kwargs = {"amount", "category"}
    /\ Cardinality(rows) = 2
    /\ \E q \in rows : /\ q.id = last.id
                        /\ q.amount = 50
                        /\ q.category = "Lazer"
                        /\ q.updated_at = LaterTime
                        /\ q.created_at = FirstTime
    /\ \E o \in rows : o.id # last.id /\ o.updated_at = FirstTime

----------------------------------------------------------------------------
(* Properties of the memory store and its budget tools, checked under
   SpecMemory *)

\* The period a budget call is about: the month of today when none is given
PeriodOf(period) == IF NotText(period) THEN month_period(today) ELSE period

\* Document d of the store is a budget of the user for the period and the
\* slug of the category
BudgetOf(d, user_id, period, category) ==
    /\ d.namespace = <<user_id, "budgets">>
    /\ d.value.period = PeriodOf(period)
    /\ _slug(d.value.category) = _slug(category)

\* C17: after save_budget(c, a, p) of a user, get_budget(c, p) of that user
\* returns the document with category c, amount a and period p; the store
\* has one document for (p, slug(c)) of the user, which replaced the one it
\* had if it had one, and every other document is as it was.
C17_BudgetRoundTrip ==
    [][/\ last'.op = "save_budget" =>
            LET u == last'.user
                c == last'.category
                p == last'.period
                mine(d) == BudgetOf(d, u, p, c)
                ret == get_budget(memory', today, u, c, p, 20)
            IN /\ ret.found
               /\ Len(ret.values) = 1
               /\ ret.values[1].category = c
               /\ ret.values[1].amount = last'.amount
               /\ ret.values[1].period = PeriodOf(p)
               /\ Len(SelectSeq(memory', mine)) = 1
               /\ Len(memory') = Len(memory)
                                 + (IF SelectSeq(memory, mine) = <<>>
                                    THEN 1 ELSE 0)
               /\ \A i \in DOMAIN memory :
                      ~mine(memory[i]) => memory'[i] = memory[i]
       /\ (/\ last.op = "save_budget"
           /\ last'.op = "get_budget"
           /\ last'.user = last.user
           /\ last'.category = last.category
           /\ last'.period = last.period) =>
               /\ last'.ret.found
               /\ Len(last'.ret.values) = 1
               /\ last'.ret.values[1].category = last.category
               /\ last'.ret.values[1].amount = last.amount
               /\ last'.ret.values[1].period = PeriodOf(last.period)
      ]_vars

\* C17 happens: get_budget returns the budget of 450 for Transport in
\* 2024-10 while the store has another budget as well
C17_Witness ==
    /\ last.op = "get_budget"
    /\ last.category = <<"T", "r", "a", "n", "s", "p", "o", "r", "t">>
    /\ last.period = <<"2", "0", "2", "4", "-", "1", "0">>
    /\ last.ret.found
    /\ last.ret.values[1].amount = 450
    /\ last.ret.values[1].category = <<"T", "r", "a", "n", "s", "p", "o", "r", "t">>
    /\ Len(Budgets(memory)) = 2

\* Value v has every field of the filter with an equal value
Matches(v, filter) ==
    \A f \in DOMAIN filter : f \in DOMAIN v /\ v[f] = filter[f]

\* The documents of a namespace whose value matches the filter
Matching_docs(mem, namespace, filter) ==
    {i \in DOMAIN mem : /\ mem[i].namespace = namespace
                        /\ Matches(mem[i].value, filter)}

\* C18: search with a filter returns documents of the namespace that have
\* every field of the filter with an equal value, each once, as many as
\* there are up to limit; so does the list of get_budget for its period.
C18_SearchFilterIsStructural ==
    [][/\ last'.op = "search" =>
            LET hits == Matching_docs(memory, last'.namespace, last'.filter)
                ret == last'.ret
            IN /\ Len(ret) = Min(last'.limit, Cardinality(hits))
               /\ \A j \in DOMAIN ret : \E i \in hits : ret[j] = memory[i]
               /\ \A j, k \in DOMAIN ret : ret[j] = ret[k] => j = k
       /\ (last'.op = "get_budget" /\ NotText(last'.category)) =>
            LET hits == Matching_docs(memory, <<last'.user, "budgets">>,
                                      [period |-> PeriodOf(last'.period)])
                ret == last'.ret.values
            IN /\ Len(ret) = Min(last'.limit, Cardinality(hits))
               /\ \A j \in DOMAIN ret : \E i \in hits : ret[j] = memory[i].value
               /\ \A j, k \in DOMAIN ret : ret[j] = ret[k] => j = k
      ]_vars

\* C18 happens: search with filter {"a": 1} returns the note {"a": 1,
\* "b": 2} alone, though the store has the note {"a": 10}
C18_Witness ==
    /\ last.op = "search"
    /\ last.filter = [a |-> 1]
    /\ last.limit = 50
    /\ Len(last.ret) = 1
    /\ last.ret[1].value = [a |-> 1, b |-> 2]
    /\ \E i \in DOMAIN memory : memory[i].value = [a |-> 10]

----------------------------------------------------------------------------
(* Properties of concurrent callers, checked under SpecThreads *)

\* Thread t is between the flush and the commit of an add_transaction
Flushed(ss, t) == ss[t].pc = "flushed"

\* C19: a list_transactions returns committed rows of the user only, and an
\* update_transaction loads a committed row or none; a step of one thread
\* changes nothing of the session of a thread that has flushed and not yet
\* committed, and the commit of an add_transaction puts on file the row
\* under the id it returned.
C19_SessionsIsolated ==
    [][/\ (/\ last'.op = "list_transactions"
           /\ last.op = "list_transactions" => last' # last) =>
            LET mine == {r \in rows : r.user_id = last'.user}
            IN /\ Len(last'.ret) = Min(DefaultLimit, Cardinality(mine))
               /\ \A i \in DOMAIN last'.ret :
                      \E r \in mine : last'.ret[i] = to_dict(r)
       /\ \A t \in Threads :
            /\ (sessions[t].pc = "idle" /\ sessions'[t].pc = "loaded") =>
                  \A i \in DOMAIN sessions'[t].loaded :
                      sessions'[t].loaded[i] \in rows
            /\ (Flushed(sessions, t) /\ Flushed(sessions', t)) =>
                  sessions'[t] = sessions[t]
            /\ (/\ Flushed(sessions, t)
                /\ ~Flushed(sessions', t)
                /\ last'.raised = NoExc) =>
                  \E r \in rows' \ rows : /\ r.id = last'.ret
                                          /\ r.user_id = last'.user
            /\ (/\ Flushed(sessions, t)
                /\ ~Flushed(sessions', t)
                /\ last'.raised # NoExc) => rows' = rows
      ]_vars

\* C19 happens: thread t2 has listed the one committed transaction of u1
\* while thread t1 holds a flushed, uncommitted transaction of u1
C19_Witness ==
    /\ last.op = "list_transactions"
    /\ last.thread = "t2"
    /\ Flushed(sessions, "t1")
    /\ sessions["t1"].txn
    /\ Cardinality(sessions["t1"].pending) = 2
    /\ Len(last.ret) = 1
    /\ Cardinality(rows) = 1

\* The row after update_transaction(**kwargs) alone on row r
Alone(r, kwargs) == onupdate(r, setattrs(r, kwargs), now)

\* C20: when an update_transaction commits after another thread's
\* update_transaction of the same row that loaded the same values, every
\* field both passed holds the value of the call that commits last, and the
\* row is one that a call alone or the two calls one after the other leave.
C20_LastWriterWins ==
    [][\A t \in Threads :
        (/\ sessions[t].pc = "loaded"
         /\ sessions'[t].pc = "idle"
         /\ last'.raised = NoExc
         /\ last.op = "update_transaction"
         /\ last.thread # t
         /\ last.raised = NoExc
         /\ last.id = last'.id
         /\ last.loaded # <<>>
         /\ last.loaded = last'.loaded) =>
            LET orig == last'.loaded[1]
                first == last.kwargs
                second == last'.kwargs
            IN \E q \in rows' :
                /\ q.id = orig.id
                /\ \A f \in DOMAIN first \cap DOMAIN second :
                        q[f] = second[f].val
                /\ q \in {Alone(orig, first), Alone(orig, second),
                           Alone(Alone(orig, first), second),
                           Alone(Alone(orig, second), first)}
      ]_vars

----------------------------------------------------------------------------
(* Properties of the ids, checked under Spec *)

\* C21: an add_transaction that succeeds returns the id of the row it
\* created, an id greater than the id of every row of the table, and never
\* an id that was given before: it does not return the id of the row that
\* the delete_transaction just before it removed.
C21_IdsMonotonicNeverReused ==
    [][(/\ last'.op = "add_transaction"
        /\ last'.raised = NoExc
        /\ rows' # rows) =>
            /\ \E r \in rows' \ rows : r.id = last'.ret
            /\ \A r \in rows : r.id < last'.ret
            /\ (/\ last.op = "delete_transaction"
                /\ last.raised = NoExc
                /\ last.ret = TRUE) => last'.ret # last.id
      ]_vars

\* C22: once a call has returned or raised, the session it acquired is
\* closed: a thread that is in no call has a session with no transaction
\* open and nothing pending, after a return, a storage error and any other
\* exception alike.
C22_SessionReleased ==
    \A t \in Threads :
        sessions[t].pc = "idle" =>
            /\ ~sessions[t].txn
            /\ sessions[t].pending = {}

\* C22 happens: the add_transaction of t1 has raised an exception that is
\* no storage error and its session is closed, while t2 is in a call
C22_Witness ==
    /\ last.op = "add_transaction"
    /\ last.thread = "t1"
    /\ last.raised = "Exception"
    /\ sessions["t1"].pc = "idle"
    /\ ~sessions["t1"].txn
    /\ sessions["t2"].pc = "loaded"

----------------------------------------------------------------------------
(* A property of the failures of infer_category, checked under SpecInfer *)

\* C23: infer_category never fails and has no side effect: every call,
\* whatever the description and whether or not the storage fails, raises
\* nothing, returns a pair of a category and a type, and leaves the
\* keyword table and the ledger as they were.
C23_InferNeverFails ==
    [][last'.op = "infer_category" =>
            /\ last'.raised = NoExc
            /\ \/ last'.ret = DefaultInference
               \/ \E m \in mappings : last'.ret = <<m.category, m.type>>
            /\ mappings' = mappings
            /\ rows' = rows
      ]_vars

----------------------------------------------------------------------------
(* A property of the clear_user_history tool, checked under SpecUpdate *)

\* C24: the clear_user_history tool of a user removes the rows of that user
\* when confirm is 'SIM' and the store does not fail; with any other confirm
\* it calls no store operation and the ledger is as it was; the rows of
\* every other user are as they were in either case.
C24_ClearToolNeedsConfirmation ==
    [][last'.op = "tool_clear_user_history" =>
        LET mine == {r \in rows : r.user_id = last'.user}
        IN /\ last'.confirm # "SIM" =>
                /\ ~last'.called
                /\ rows' = rows
                /\ last'.ret.status = "cancelled"
           /\ (last'.confirm = "SIM" /\ last'.fault = "none") =>
                /\ last'.called
                /\ rows' = rows \ mine
                /\ last'.ret = [status |-> "cleared",
                                count |-> Cardinality(mine)]
           /\ rows' # rows => last'.confirm = "SIM"
           /\ rows \ mine \subseteq rows'
           /\ rows' \subseteq rows
      ]_vars

\* C24 happens: the tool, confirmed, removed the one row of its user and
\* the row of the other user is still there
C24_Witness ==
    /\ last.op = "tool_clear_user_history"
    /\ last.confirm = "SIM"
    /\ last.ret = [status |-> "cleared", count |-> 1]
    /\ Cardinality(rows) = 1
    /\ \A r \in rows : r.user_id # last.user

----------------------------------------------------------------------------
(* A property of the search_transactions tool, checked under SpecTools *)

\* The user's rows whose category or description contains the term, case
\* ignored; a row without description has no description to contain it
TermMatches(db, user_id, search_term) ==
    {r \in db :
        /\ r.user_id = user_id
        /\ \/ str_in(lower(search_term), lower(category_text[r.category]))
           \/ /\ r.description # NoText
              /\ str_in(lower(search_term), lower(r.description))}

\* C25: whatever the ledger holds, rows without description included, a
\* search that the store answered is never an error: it reports the user's
\* matching transactions, at most limit of them, latest date first
C25_SearchReportsMatches ==
    [][(last'.op = "tool_search_transactions" /\ last'.fault = "none") =>
        LET hits == TermMatches(rows, last'.user, last'.search_term)
            res == last'.ret.results
        IN /\ last'.ret.status # "error"
           /\ Len(res) = Min(last'.limit, Cardinality(hits))
           /\ \A i \in DOMAIN res : \E r \in hits : res[i] = to_dict(r)
           /\ \A i, j \in DOMAIN res : i < j =>
                /\ res[i] # res[j]
                /\ \E a, b \in hits :
                        /\ res[i] = to_dict(a)
                        /\ res[j] = to_dict(b)
                        /\ DateGE(a.date, b.date)]_vars

----------------------------------------------------------------------------
(* A property of update_transaction's frame, checked under Spec *)

\* The identity and the owner of every row
Identities(db) == {<<r.id, r.user_id>> : r \in db}

\* C26: no update_transaction, whatever field names it is given, changes a
\* row's id or a row's user_id
C26_UpdateKeepsIdAndOwner ==
    [][last'.op = "update_transaction" =>
        Identities(rows') = Identities(rows)]_vars

----------------------------------------------------------------------------
(* Properties of concurrent callers, checked under SpecRaces *)

\* C27: when two stores have been constructed concurrently on one ledger
\* file, neither construction raised and the table holds exactly one row
\* for each default keyword
C27_ConcurrentInitSeedsOnce ==
    (\A t \in Threads : sessions[t].pc # "seeding") =>
        /\ \A t \in Threads : sessions[t].raised = NoExc
        /\ \A i \in DOMAIN CATEGORY_KEYWORDS :
                Cardinality(existing(mappings,
                                     CATEGORY_KEYWORDS[i].keyword)) = 1

\* The profile stored for user_id, empty when there is none
ProfileOf(mem, user_id) ==
    LET current == get(mem, <<user_id, "prefs">>, ProfileKey)
    IN IF current # <<>> THEN current[1].value ELSE <<>>

\* C28: when two set_preference calls of one user with different keys have
\* both returned, in whatever order their get and put steps ran, the
\* user's profile maps each key to its value and keeps every earlier
\* preference
C28_BothPreferencesKept ==
    \A t1, t2 \in Threads :
        (/\ t1 # t2
         /\ sessions[t1].pref = "saved" /\ sessions[t2].pref = "saved"
         /\ sessions[t1].user = sessions[t2].user
         /\ sessions[t1].key # sessions[t2].key) =>
            LET profile == ProfileOf(memory, sessions[t1].user)
                earlier == ProfileOf(Stored, sessions[t1].user)
            IN /\ \A t \in Threads :
                    /\ sessions[t].key \in DOMAIN profile
                    /\ profile[sessions[t].key] = sessions[t].value
               /\ \A k \in DOMAIN earlier :
                    k \in DOMAIN profile /\ profile[k] = earlier[k]

====
